---- MODULE Spec2Model ----
(***************************************************************************)
(* Model of the catabalancer package (src/unnamed/part_002): the node      *)
(* registry guarded by nodesLock, the stats store read by RefreshNodes,    *)
(* and the scoring / selection engine.                                     *)
(*                                                                         *)
(* Conventions.  A Go string that the code splits, cuts or joins is a      *)
(* sequence of tokens ("v+x" is <<"v","+","x">>, "" is <<>>); node names   *)
(* are single tokens.  A Go map is a function whose DOMAIN is the key set. *)
(* float64 values are integers.  time.Time values are integers and         *)
(* time.Now() is the variable now.  The rows loop of RefreshNodes reads    *)
(* the clock once for each row, and the clock may advance between two      *)
(* rows; one iteration of a loop over c.Nodes reads one value.             *)
(***************************************************************************)
EXTENDS Integers, Sequences, FiniteSets, TLC

\* ---------------------------------------------------------------- bounds
MaxTime == 2
MaxRows == 2
MaxMembers == 2
MaxCands == 4

\* ------------------------------------------------- configuration of c
NodeName == "A"
metricTimeout == 2
ingestStreamTimeout == 1

NodeNames == {"A", "B"}

\* ------------------------------------------------------- map helpers
EmptyMap == <<>>

MapPut(m, k, v) == [x \in (DOMAIN m) \cup {k} |-> IF x = k THEN v ELSE m[x]]

MapRestrict(m, keys) == IF keys = {} THEN EmptyMap ELSE [x \in keys |-> m[x]]

Range(f) == {f[x] : x \in DOMAIN f}

\* ---------------------------------------------------- string helpers
RECURSIVE Join(_, _)
Join(elems, sep) ==
    IF elems = <<>> THEN <<>>
    ELSE IF Len(elems) = 1 THEN elems[1]
    ELSE elems[1] \o <<sep>> \o Join(Tail(elems), sep)

\* index of the first occurrence of the token sep in s, 0 when absent
RECURSIVE IndexOf(_, _, _)
IndexOf(s, sep, i) ==
    IF i > Len(s) THEN 0
    ELSE IF s[i] = sep THEN i
    ELSE IndexOf(s, sep, i + 1)

Cut(s, sep) ==
    LET i == IndexOf(s, sep, 1) IN
    IF i = 0 THEN [before |-> s, after |-> <<>>, found |-> FALSE]
    ELSE [before |-> SubSeq(s, 1, i - 1),
          after |-> SubSeq(s, i + 1, Len(s)),
          found |-> TRUE]

RECURSIVE Split(_, _)
Split(s, sep) ==
    LET i == IndexOf(s, sep, 1) IN
    IF i = 0 THEN <<s>>
    ELSE <<SubSeq(s, 1, i - 1)>> \o Split(SubSeq(s, i + 1, Len(s)), sep)

Digits == [d \in {"0", "1", "2", "3"} |->
             CASE d = "0" -> 0 [] d = "1" -> 1 [] d = "2" -> 2 [] d = "3" -> 3]

RECURSIVE DigitsValue(_, _)
DigitsValue(s, acc) ==
    IF s = <<>> THEN acc
    ELSE DigitsValue(Tail(s), 10 * acc + Digits[Head(s)])

\* strconv.ParseFloat on decimal integer literals with an optional sign
ParseFloat(s) ==
    LET neg == s # <<>> /\ Head(s) = "-"
        body == IF neg THEN Tail(s) ELSE s
    IN  IF body # <<>> /\ \A i \in 1..Len(body) : body[i] \in DOMAIN Digits
        THEN [v |-> IF neg THEN 0 - DigitsValue(body, 0) ELSE DigitsValue(body, 0),
              err |-> ""]
        ELSE [v |-> 0, err |-> "strconv.ParseFloat: invalid syntax"]

Abs(x) == IF x < 0 THEN 0 - x ELSE x

\* ------------------------------------------------------- event codec
SetStreams(streamIDs, ingestStreamIDs) ==
    Join(streamIDs, "|") \o <<"~">> \o Join(ingestStreamIDs, "|")

\* GetStreams without the test for an empty segment
GetStreams_NoEmptyTest(streams) == Split(Cut(streams, "~").before, "|")

GetStreams(streams) ==
    LET before == Cut(streams, "~").before IN
    IF Len(before) > 0 THEN Split(before, "|") ELSE <<>>

GetIngestStreams(streams) ==
    LET after == Cut(streams, "~").after IN
    IF Len(after) > 0 THEN Split(after, "|") ELSE <<>>

\* getPlaybackID without the split
getPlaybackID_KeepsPrefix(streamID) == streamID

getPlaybackID(streamID) ==
    LET parts == Split(streamID, "+") IN
    IF Len(parts) = 2 THEN parts[2] ELSE streamID

\* isStale with > in place of >=
isStale_Strict(timestamp, stale, clock) == clock - timestamp > stale

\* time.Since(timestamp) >= stale, with the clock reading passed in
isStale(timestamp, stale, clock) == clock - timestamp >= stale

\* ------------------------------------------------------ stats store
\* A row of node_stats is the serialized NodeUpdateEvent of one node (json is
\* TRUE; n, nm and s are the fields "n", "nm" and "s"), or bytes that
\* json.Unmarshal rejects (json is FALSE).
ZeroMetrics == [c |-> 0, r |-> 0, b |-> 0, l |-> 0, la |-> 0, lo |-> 0, t |-> 0]

Garbage == [json |-> FALSE, n |-> "", nm |-> ZeroMetrics, s |-> <<>>]

Unmarshal(statsBytes) ==
    IF ~statsBytes.json
    THEN [event |-> [n |-> "", nm |-> ZeroMetrics, s |-> <<>>], err |-> "unmarshal"]
    ELSE [event |-> [n |-> statsBytes.n, nm |-> statsBytes.nm, s |-> statsBytes.s],
          err |-> ""]

NewStats == [Streams |-> EmptyMap, IngestStreams |-> EmptyMap, NodeMetrics |-> EmptyMap]

\* s.Streams[node][playbackID] = Stream{...} for every stream of the list
RECURSIVE putStreams(_, _, _)
putStreams(m, list, clock) ==
    IF list = <<>> THEN m
    ELSE LET stream == Head(list)
             playbackID == getPlaybackID(stream)
         IN  putStreams(MapPut(m, playbackID,
                               [ID |-> stream, PlaybackID |-> playbackID, Timestamp |-> clock]),
                        Tail(list), clock)

\* s.IngestStreams[node][stream] = Stream{...} for every stream of the list
RECURSIVE putIngestStreams(_, _, _)
putIngestStreams(m, list, clock) ==
    IF list = <<>> THEN m
    ELSE LET stream == Head(list)
             playbackID == getPlaybackID(stream)
         IN  putIngestStreams(MapPut(m, stream,
                                     [ID |-> stream, PlaybackID |-> playbackID, Timestamp |-> clock]),
                              Tail(list), clock)

\* applyEvent with the maps made anew for every row
applyEvent_Replaces(s, event, clock) ==
    LET streams == putStreams(putStreams(EmptyMap, GetStreams(event.s), clock),
                              GetIngestStreams(event.s), clock)
        ingest == putIngestStreams(EmptyMap, GetIngestStreams(event.s), clock)
    IN  [Streams |-> MapPut(EmptyMap, event.n, streams),
         IngestStreams |-> MapPut(EmptyMap, event.n, ingest),
         NodeMetrics |-> MapPut(EmptyMap, event.n, event.nm)]

\* applyEvent making the ingest map of a node only when it has ingest streams
applyEvent_LazyIngestMap(s, event, clock) ==
    LET streams == putStreams(putStreams(EmptyMap, GetStreams(event.s), clock),
                              GetIngestStreams(event.s), clock)
        ingest == putIngestStreams(EmptyMap, GetIngestStreams(event.s), clock)
    IN  [Streams |-> MapPut(s.Streams, event.n, streams),
         IngestStreams |-> IF GetIngestStreams(event.s) = <<>> THEN s.IngestStreams
                           ELSE MapPut(s.IngestStreams, event.n, ingest),
         NodeMetrics |-> MapPut(s.NodeMetrics, event.n, event.nm)]

\* applyEvent with the ingest streams kept out of the playback snapshot
applyEvent_IngestApart(s, event, clock) ==
    LET streams == putStreams(EmptyMap, GetStreams(event.s), clock)
        ingest == putIngestStreams(EmptyMap, GetIngestStreams(event.s), clock)
    IN  [Streams |-> MapPut(s.Streams, event.n, streams),
         IngestStreams |-> MapPut(s.IngestStreams, event.n, ingest),
         NodeMetrics |-> MapPut(s.NodeMetrics, event.n, event.nm)]

\* the body of the rows loop for one decoded, non-stale event
applyEvent(s, event, clock) ==
    LET streams == putStreams(putStreams(EmptyMap, GetStreams(event.s), clock),
                              GetIngestStreams(event.s), clock)
        ingest == putIngestStreams(EmptyMap, GetIngestStreams(event.s), clock)
    IN  [Streams |-> MapPut(s.Streams, event.n, streams),
         IngestStreams |-> MapPut(s.IngestStreams, event.n, ingest),
         NodeMetrics |-> MapPut(s.NodeMetrics, event.n, event.nm)]

\* the rows loop going on to the next row when a row does not decode
RECURSIVE refreshRows_SkipsUndecodable(_, _, _)
refreshRows_SkipsUndecodable(rows, s, clocks) ==
    IF rows = <<>> THEN [s |-> s, err |-> ""]
    ELSE LET u == Unmarshal(Head(rows))
             clock == Head(clocks)
         IN  IF u.err # "" THEN refreshRows_SkipsUndecodable(Tail(rows), s, Tail(clocks))
             ELSE IF isStale(u.event.nm.t, metricTimeout, clock)
             THEN refreshRows_SkipsUndecodable(Tail(rows), s, Tail(clocks))
             ELSE refreshRows_SkipsUndecodable(Tail(rows), applyEvent(s, u.event, clock),
                                               Tail(clocks))

\* the rows loop without the staleness test
RECURSIVE refreshRows_KeepsStale(_, _, _)
refreshRows_KeepsStale(rows, s, clocks) ==
    IF rows = <<>> THEN [s |-> s, err |-> ""]
    ELSE LET u == Unmarshal(Head(rows))
             clock == Head(clocks)
         IN  IF u.err # "" THEN [s |-> s, err |-> "failed to unmarshal node update event"]
             ELSE refreshRows_KeepsStale(Tail(rows), applyEvent(s, u.event, clock),
                                         Tail(clocks))

\* the rows loop; clocks[i] is what the clock reads while row i is processed
RECURSIVE refreshRows(_, _, _)
refreshRows(rows, s, clocks) ==
    IF rows = <<>> THEN [s |-> s, err |-> ""]
    ELSE LET u == Unmarshal(Head(rows))
             clock == Head(clocks)
         IN  IF u.err # "" THEN [s |-> s, err |-> "failed to unmarshal node update event"]
             ELSE IF isStale(u.event.nm.t, metricTimeout, clock)
             THEN refreshRows(Tail(rows), s, Tail(clocks))
             ELSE refreshRows(Tail(rows), applyEvent(s, u.event, clock), Tail(clocks))

\* fault is what the driver reports for this query: "" when it reports nothing
RefreshNodes(rows, fault, clocks) ==
    IF fault = "nil" THEN [s |-> NewStats, err |-> "node stats DB was nil"]
    ELSE IF fault = "query" THEN [s |-> NewStats, err |-> "failed to query node stats"]
    ELSE IF fault = "scan" /\ rows # <<>>
    THEN [s |-> NewStats, err |-> "failed to scan node stats row"]
    ELSE LET res == refreshRows(rows, NewStats, clocks) IN
         IF res.err # "" THEN res
         ELSE IF fault = "rows" THEN [s |-> res.s, err |-> "rows.Err"]
         ELSE res

\* ------------------------------------------------- scoring, selection
HasStream(n, streamID) == streamID \in DOMAIN n.Streams

\* GetLoadScore counting the metrics that are at most 50
GetLoadScore_CountsMetrics(n) ==
    (IF n.NodeMetrics.c > 50 THEN 0 ELSE 1) + (IF n.NodeMetrics.b > 50 THEN 0 ELSE 1)
    + (IF n.NodeMetrics.r > 50 THEN 0 ELSE 1)

\* GetLoadScore with >= in place of > at the overload threshold
GetLoadScore_Inclusive(n) ==
    IF n.NodeMetrics.c >= 85 \/ n.NodeMetrics.b >= 85 \/ n.NodeMetrics.r >= 85 THEN 0
    ELSE IF n.NodeMetrics.c > 50 \/ n.NodeMetrics.b > 50 \/ n.NodeMetrics.r > 50 THEN 1
    ELSE 2

GetLoadScore(n) ==
    IF n.NodeMetrics.c > 85 \/ n.NodeMetrics.b > 85 \/ n.NodeMetrics.r > 85 THEN 0
    ELSE IF n.NodeMetrics.c > 50 \/ n.NodeMetrics.b > 50 \/ n.NodeMetrics.r > 50 THEN 1
    ELSE 2

\* geoScores is not among the sources: GeoDistance is the distance between the
\* node and the request, GeoScore is 2 (near), 1 (medium) or 0 (far), falling
\* with the distance.
NearDistance == 0
MediumDistance == 1

geoScores(scoredNodes, requestLatitude, requestLongitude) ==
    [i \in 1..Len(scoredNodes) |->
        LET d == Abs(scoredNodes[i].NodeMetrics.la - requestLatitude)
                 + Abs(scoredNodes[i].NodeMetrics.lo - requestLongitude)
        IN  [scoredNodes[i] EXCEPT !.GeoDistance = d,
                                   !.GeoScore = IF d <= NearDistance THEN 2
                                                ELSE IF d <= MediumDistance THEN 1
                                                ELSE 0]]

\* truncateReturned without the cut
truncateReturned_NoLimit(scoredNodes, numNodes) == scoredNodes

truncateReturned(scoredNodes, numNodes) ==
    IF Len(scoredNodes) < numNodes THEN scoredNodes
    ELSE SubSeq(scoredNodes, 1, numNodes)

\* rand.Shuffle: every ordering of the list is a possible outcome
shuffle(scoredNodes) ==
    {[i \in 1..Len(scoredNodes) |-> scoredNodes[p[i]]] :
        p \in Permutations(1..Len(scoredNodes))}

\* weightedScores adding the stream bonus to Score only
weightedScores_NoStreamScore(scoredNodes, streamID) ==
    [i \in 1..Len(scoredNodes) |->
        LET node == scoredNodes[i]
            base == node.Score + node.GeoScore + GetLoadScore(node)
        IN  IF HasStream(node, streamID)
            THEN [node EXCEPT !.Score = base + 2]
            ELSE [node EXCEPT !.Score = base]]

\* weightedScores without the stream bonus
weightedScores_NoStreamBonus(scoredNodes, streamID) ==
    [i \in 1..Len(scoredNodes) |->
        LET node == scoredNodes[i]
            base == node.Score + node.GeoScore + GetLoadScore(node)
        IN  IF HasStream(node, streamID)
            THEN [node EXCEPT !.Score = base, !.StreamScore = 2]
            ELSE [node EXCEPT !.Score = base]]

\* tier 3, the loop that adds GeoScore, load score and stream score to Score
weightedScores(scoredNodes, streamID) ==
    [i \in 1..Len(scoredNodes) |->
        LET node == scoredNodes[i]
            base == node.Score + node.GeoScore + GetLoadScore(node)
        IN  IF HasStream(node, streamID)
            THEN [node EXCEPT !.Score = base + 2, !.StreamScore = 2]
            ELSE [node EXCEPT !.Score = base]]

\* sort.Slice with less = Score descending; the sort is not stable, so every
\* ordering in which no element precedes one of strictly higher Score can result
sortByScore(scoredNodes) ==
    {q \in shuffle(scoredNodes) :
        \A i, j \in 1..Len(q) : i < j => ~(q[j].Score > q[i].Score)}

\* the first loop of selectTopNodes without the HasStream test
localHasStreamNotOverloaded_NoStreamCheck(scoredNodes, streamID) ==
    LET IsLocal(node) == node.GeoScore = 2 /\ GetLoadScore(node) = 2
        tier1 == SelectSeq(scoredNodes, IsLocal)
    IN  [i \in 1..Len(tier1) |-> [tier1[i] EXCEPT !.StreamScore = 2]]

\* tier 1, the first loop of selectTopNodes: local, has the stream, not overloaded
localHasStreamNotOverloaded(scoredNodes, streamID) ==
    LET IsTier1(node) ==
            node.GeoScore = 2 /\ HasStream(node, streamID) /\ GetLoadScore(node) = 2
        tier1 == SelectSeq(scoredNodes, IsTier1)
    IN  [i \in 1..Len(tier1) |-> [tier1[i] EXCEPT !.StreamScore = 2]]

\* the second loop of selectTopNodes without the load test
localNotOverloaded_NoLoadCheck(scoredNodes) ==
    LET IsLocal(node) == node.GeoScore = 2
    IN  SelectSeq(scoredNodes, IsLocal)

\* tier 2, the second loop of selectTopNodes: local, not overloaded
localNotOverloaded(scoredNodes) ==
    LET IsTier2(node) == node.GeoScore = 2 /\ GetLoadScore(node) = 2
    IN  SelectSeq(scoredNodes, IsTier2)

\* the set of lists selectTopNodes can return
selectTopNodes(scoredNodes, streamID, requestLatitude, requestLongitude, numNodes) ==
    LET geo == geoScores(scoredNodes, requestLatitude, requestLongitude)
        tier1 == localHasStreamNotOverloaded(geo, streamID)
        tier2 == localNotOverloaded(geo)
    IN  IF Len(tier1) > 0
        THEN {truncateReturned(l, numNodes) : l \in shuffle(tier1)}
        ELSE IF Len(tier2) > 0
        THEN {truncateReturned(l, numNodes) : l \in shuffle(tier2)}
        ELSE {truncateReturned(l, numNodes) :
                 l \in sortByScore(weightedScores(geo, streamID))}

ZeroNode == [Name |-> "", DTSC |-> ""]

\* SelectNode without the test for an empty input
SelectNode_NoEmptyCheck(nodes, streamID, requestLatitude, requestLongitude) ==
    UNION {
        IF Len(topNodes) = 0
        THEN {[node |-> ZeroNode, err |-> "selectTopNodes returned no nodes",
               topNodes |-> topNodes]}
        ELSE {[node |-> topNodes[i].Node, err |-> "", topNodes |-> topNodes] :
                 i \in 1..Len(topNodes)}
        : topNodes \in selectTopNodes(nodes, streamID, requestLatitude, requestLongitude, 3)}

\* the set of outcomes of SelectNode; topNodes is the local list the node was
\* drawn from
SelectNode(nodes, streamID, requestLatitude, requestLongitude) ==
    IF Len(nodes) = 0
    THEN {[node |-> ZeroNode, err |-> "no nodes to select from", topNodes |-> <<>>]}
    ELSE UNION {
        IF Len(topNodes) = 0
        THEN {[node |-> ZeroNode, err |-> "selectTopNodes returned no nodes",
               topNodes |-> topNodes]}
        ELSE {[node |-> topNodes[i].Node, err |-> "", topNodes |-> topNodes] :
                 i \in 1..Len(topNodes)}
        : topNodes \in selectTopNodes(nodes, streamID, requestLatitude, requestLongitude, 3)}

\* createScoredNodes, the body of the loop for one registry entry: the list
\* with the node appended, or unchanged when its metrics are missing or stale
scoreNode(nodesList, s, node, clock) ==
    IF node.Name \notin DOMAIN s.NodeMetrics THEN nodesList
    ELSE IF isStale(s.NodeMetrics[node.Name].t, metricTimeout, clock) THEN nodesList
    ELSE LET all == s.Streams[node.Name]
             fresh == {id \in DOMAIN all : ~isStale(all[id].Timestamp, metricTimeout, clock)}
         IN  Append(nodesList,
                    [Score |-> 0, GeoScore |-> 0, StreamScore |-> 0, GeoDistance |-> 0,
                     Node |-> node,
                     Streams |-> MapRestrict(all, fresh),
                     IngestStreams |-> EmptyMap,
                     NodeMetrics |-> s.NodeMetrics[node.Name]])

\* UpdateMembers, the loop that builds latestNodes from the members left to read
RECURSIVE buildLatestNodes(_, _)
buildLatestNodes(latestNodes, members) ==
    IF members = <<>> THEN latestNodes
    ELSE LET member == Head(members) IN
         IF member.node # "media" THEN buildLatestNodes(latestNodes, Tail(members))
         ELSE buildLatestNodes(MapPut(latestNodes, member.Name,
                                      [Name |-> member.Name, DTSC |-> member.dtsc]),
                               Tail(members))

\* an UpdateMembers that adds the members to the nodes it has
UpdateMembers_Patches(nodes, members) == buildLatestNodes(nodes, members)

\* the value UpdateMembers assigns to c.Nodes, given the c.Nodes it replaces
UpdateMembers(nodes, members) == buildLatestNodes(EmptyMap, members)

\* --------------------------------------------------- input domains
\* What a node publishes besides its name and timestamp: its metrics and its
\* stream lists (playback streams, then ingest streams).
PublishChoices ==
    {[c |-> 10, r |-> 10, b |-> 10, l |-> 1, la |-> 0, lo |-> 0,
      s |-> SetStreams(<< <<"v", "+", "x">> >>, <<>>)],
     [c |-> 90, r |-> 10, b |-> 10, l |-> 1, la |-> 2, lo |-> 0,
      s |-> SetStreams(<<>>, << <<"v", "+", "x">> >>)]}

\* how far ahead of this process's clock a publisher's clock may run
MaxSkew == 1

\* The rows node_stats can hold at the time clock: one event of any node with
\* any published content, stamped from metricTimeout ago to MaxSkew ahead, or a
\* row that does not decode.  The table is written by other processes, so what
\* a query returns is an input of the call that makes it.
RowChoices(clock) ==
    {[json |-> TRUE, n |-> n,
      nm |-> [c |-> p.c, r |-> p.r, b |-> p.b, l |-> p.l, la |-> p.la, lo |-> p.lo,
              t |-> clock - age],
      s |-> p.s] :
        n \in NodeNames, p \in PublishChoices, age \in (0 - MaxSkew)..metricTimeout}
    \cup {Garbage}

RECURSIVE SeqsUpTo(_, _)
SeqsUpTo(S, n) ==
    IF n = 0 THEN {<<>>}
    ELSE LET shorter == SeqsUpTo(S, n - 1) IN
         shorter \cup {Append(q, x) : q \in {r \in shorter : Len(r) = n - 1}, x \in S}

RowLists(clock) == SeqsUpTo(RowChoices(clock), MaxRows)

\* What the driver does with one query: it returns rows and no fault, or it
\* reports a fault: "query" (Query fails), "scan" (Scan of the first row
\* fails), "rows" (rows.Err after the loop).
QueryOutcomes(clock) ==
    {[rows |-> rows, fault |-> ""] : rows \in RowLists(clock)}
    \cup {[rows |-> rows, fault |-> f] :
            rows \in SeqsUpTo(RowChoices(clock), 1), f \in {"nil", "query", "scan", "rows"}}

\* the arguments of GetBestNode: redirectPrefixes, playbackID, lat, lon,
\* fallbackPrefix, isStudioReq
GetBestNodeArgs ==
    {<<p, id, lat, lon, fb, studio>> :
        p \in {<<>>, <<"hls">>}, id \in {<<"x">>}, lat \in {<<>>}, lon \in {<<>>},
        fb \in {"", "vod"}, studio \in BOOLEAN}
    \cup {<< <<>>, <<"y">>, <<"2">>, <<>>, "", FALSE>>,
          << <<>>, <<"x">>, <<"z">>, <<>>, "", FALSE>>,
          << <<>>, <<"x">>, <<>>, <<"z">>, "", FALSE>>}

\* the arguments of MistUtilLoadSource: streamID, lat, lon
MistUtilLoadSourceArgs ==
    {<<id, <<>>, <<>>>> : id \in {<<"v", "+", "x">>, <<"x">>}}

\* cluster.Member: Name and the tags "node" and "dtsc"
MemberChoices ==
    {[Name |-> "A", node |-> "media", dtsc |-> "d1"],
     [Name |-> "B", node |-> "media", dtsc |-> "d1"],
     [Name |-> "B", node |-> "media", dtsc |-> "d2"],
     [Name |-> "B", node |-> "test", dtsc |-> "d1"]}

MemberLists == SeqsUpTo(MemberChoices, MaxMembers)

Callers == {"c1"}

\* ---------------------------------------------------------- state
VARIABLES
    Nodes,      \* c.Nodes: node name -> Node
    nodesLock,  \* c.nodesLock: [writer: BOOLEAN, readers: set of callers]
    um,         \* the position of the UpdateMembers call: "idle" or "locked"
    now,        \* the clock
    call,       \* per caller: the GetBestNode / MistUtilLoadSource call in progress
    h           \* one operation applied on its own to drawn inputs: inputs and outcome

sysVars == <<Nodes, nodesLock, um, now, call>>

HIdle == [pc |-> "idle"]

\* err is the error's message, cause the message of the error it wraps (%w)
NoRet == [node |-> "", stream |-> <<>>, addr |-> <<>>, err |-> "", cause |-> ""]

\* pc: idle, rlock (refreshed, before RLock), range (in the loop over c.Nodes),
\* done (returned).  s, streamID, latf, lonf, redirectPrefixes, nodesList are the
\* locals of the call; visited is the progress of the range loop; ret is what
\* the call returned.  History, not read by the call: queried (the store was
\* queried), ver (c.Nodes when the read lock was taken), seen (the registry
\* entries the loop has read), scored (the names in nodesList when the loop
\* ended).
IdleCall ==
    [pc |-> "idle", op |-> "", s |-> NewStats, streamID |-> <<>>,
     latf |-> 0, lonf |-> 0, redirectPrefixes |-> <<>>,
     visited |-> {}, nodesList |-> <<>>, ret |-> NoRet,
     queried |-> FALSE, ver |-> EmptyMap, seen |-> {}, scored |-> {}]

\* the call has returned ret: its locals are gone, its history is kept
Returned(cl, ret) ==
    [IdleCall EXCEPT !.pc = "done", !.op = cl.op, !.ret = ret, !.queried = cl.queried,
                     !.ver = cl.ver, !.seen = cl.seen,
                     !.scored = {cl.nodesList[i].Node.Name : i \in 1..Len(cl.nodesList)}]

SysInit ==
    /\ Nodes = EmptyMap
    /\ nodesLock = [writer |-> FALSE, readers |-> {}]
    /\ um = "idle"
    /\ now = 0
    /\ call = [c \in Callers |-> IdleCall]

\* ------------------------------------------------------ nodesLock
\* a Lock() that does not wait for the readers
LockFree_IgnoresReaders(l) == ~l.writer

\* Lock() returns when no reader and no writer holds the lock
LockFree(l) == ~l.writer /\ l.readers = {}

\* an RLock() that does not wait for the writer
RLockFree_IgnoresWriter(l) == TRUE

\* RLock() returns when no writer holds the lock
RLockFree(l) == ~l.writer

\* ---------------------------------------------------- environment
\* the clock readings of a rows loop of n rows that starts at clock
ClockReadings(clock, n) ==
    {r \in [1..n -> clock..MaxTime] :
        /\ n > 0 => r[1] = clock
        /\ \A i \in 1..(n - 1) : r[i] <= r[i + 1]}

\* the clock when the rows loop that read clocks is over
ClockAfter(clock, clocks) == IF clocks = <<>> THEN clock ELSE clocks[Len(clocks)]

Tick ==
    /\ now < MaxTime
    /\ now' = now + 1
    /\ UNCHANGED <<Nodes, nodesLock, um, call, h>>

\* --------------------------------------------------- UpdateMembers
\* c.nodesLock.Lock()
UM_Lock ==
    /\ um = "idle"
    /\ LockFree(nodesLock)
    /\ um' = "locked"
    /\ nodesLock' = [nodesLock EXCEPT !.writer = TRUE]
    /\ UNCHANGED <<Nodes, now, call, h>>

\* the loop over members, c.Nodes = latestNodes and the deferred Unlock
UM_Commit ==
    /\ um = "locked"
    /\ \E members \in MemberLists : Nodes' = UpdateMembers(Nodes, members)
    /\ nodesLock' = [nodesLock EXCEPT !.writer = FALSE]
    /\ um' = "idle"
    /\ UNCHANGED <<now, call, h>>

\* ----------------------------------------------------- GetBestNode
\* lat / lon: the empty string is 0.0, anything else goes through ParseFloat
parseCoord(str) == IF str = <<>> THEN [v |-> 0, err |-> ""] ELSE ParseFloat(str)

\* streamName without the use of redirectPrefixes
streamName_IgnoresPrefixes(redirectPrefixes, playbackID) == <<"video", "+">> \o playbackID

\* fmt.Sprintf("%s+%s", prefix, playbackID)
streamName(redirectPrefixes, playbackID) ==
    LET prefix == IF Len(redirectPrefixes) > 0 THEN redirectPrefixes[1] ELSE "video"
    IN  <<prefix, "+">> \o playbackID

\* RefreshNodes, then the parsing of lat and lon
GBN_Start(c) ==
    /\ call[c].pc = "idle"
    /\ \E q \in QueryOutcomes(now) : \E clocks \in ClockReadings(now, Len(q.rows)) :
          LET r == RefreshNodes(q.rows, q.fault, clocks)
              base == [IdleCall EXCEPT !.op = "GetBestNode", !.queried = TRUE]
          IN  /\ now' = ClockAfter(now, clocks)
              /\ \E args \in GetBestNodeArgs :
                    LET redirectPrefixes == args[1]
                        playbackID == args[2]
                        la == parseCoord(args[3])
                        lo == parseCoord(args[4])
                    IN  call' = [call EXCEPT ![c] =
                           IF r.err # ""
                           THEN Returned(base, [NoRet EXCEPT !.err = "error refreshing nodes",
                                                          !.cause = r.err])
                           ELSE IF la.err # "" THEN Returned(base, [NoRet EXCEPT !.err = la.err])
                           ELSE IF lo.err # "" THEN Returned(base, [NoRet EXCEPT !.err = lo.err])
                           ELSE [base EXCEPT !.pc = "rlock", !.s = r.s, !.streamID = playbackID,
                                             !.latf = la.v, !.lonf = lo.v,
                                             !.redirectPrefixes = redirectPrefixes]]
    /\ UNCHANGED <<Nodes, nodesLock, um, h>>

\* c.nodesLock.RLock() in createScoredNodes and in MistUtilLoadSource
RLock(c) ==
    /\ call[c].pc = "rlock"
    /\ RLockFree(nodesLock)
    /\ nodesLock' = [nodesLock EXCEPT !.readers = @ \cup {c}]
    /\ call' = [call EXCEPT ![c].pc = "range", ![c].ver = Nodes]
    /\ UNCHANGED <<Nodes, um, now, h>>

\* createScoredNodes: one iteration of the loop over c.Nodes
GBN_Range(c) ==
    /\ call[c].pc = "range"
    /\ call[c].op = "GetBestNode"
    /\ \E nodeName \in (DOMAIN Nodes) \ call[c].visited :
          call' = [call EXCEPT
                      ![c].visited = @ \cup {nodeName},
                      ![c].seen = @ \cup {Nodes[nodeName]},
                      ![c].nodesList = scoreNode(@, call[c].s, Nodes[nodeName], now)]
    /\ UNCHANGED <<Nodes, nodesLock, um, now, h>>

\* bestNodeResults without the fallback: SelectNode's error is returned
bestNodeResults_NoFallback(scoredNodes, redirectPrefixes, playbackID, latf, lonf) ==
    LET full == streamName(redirectPrefixes, playbackID) IN
    {IF sel.err # "" THEN [NoRet EXCEPT !.err = sel.err]
     ELSE [NoRet EXCEPT !.node = sel.node.Name, !.stream = full] :
        sel \in SelectNode(scoredNodes, playbackID, latf, lonf)}

\* bestNodeResults without the assignment nodeName = node.Name
bestNodeResults_KeepsSelf(scoredNodes, redirectPrefixes, playbackID, latf, lonf) ==
    LET full == streamName(redirectPrefixes, playbackID) IN
    IF Len(scoredNodes) > 0
    THEN {IF sel.err # "" THEN [NoRet EXCEPT !.err = sel.err]
          ELSE [NoRet EXCEPT !.node = NodeName, !.stream = full] :
             sel \in SelectNode(scoredNodes, playbackID, latf, lonf)}
    ELSE {[NoRet EXCEPT !.node = NodeName, !.stream = full]}

\* what GetBestNode returns once createScoredNodes has returned scoredNodes
bestNodeResults(scoredNodes, redirectPrefixes, playbackID, latf, lonf) ==
    LET full == streamName(redirectPrefixes, playbackID) IN
    IF Len(scoredNodes) > 0
    THEN {IF sel.err # "" THEN [NoRet EXCEPT !.err = sel.err]
          ELSE [NoRet EXCEPT !.node = sel.node.Name, !.stream = full] :
             sel \in SelectNode(scoredNodes, playbackID, latf, lonf)}
    ELSE {[NoRet EXCEPT !.node = NodeName, !.stream = full]}

\* GBN_Select adding ourself to c.Nodes when it falls back to ourself
GBN_Select_RegistersSelf(c) ==
    /\ call[c].pc = "range"
    /\ call[c].op = "GetBestNode"
    /\ (DOMAIN Nodes) \subseteq call[c].visited
    /\ nodesLock' = [nodesLock EXCEPT !.readers = @ \ {c}]
    /\ \E ret \in bestNodeResults(call[c].nodesList, call[c].redirectPrefixes,
                                  call[c].streamID, call[c].latf, call[c].lonf) :
          call' = [call EXCEPT ![c] = Returned(call[c], ret)]
    /\ Nodes' = IF call[c].nodesList = <<>>
                THEN MapPut(Nodes, NodeName, [Name |-> NodeName, DTSC |-> ""])
                ELSE Nodes
    /\ UNCHANGED <<um, now, h>>

\* the end of the loop, RUnlock, SelectNode or the choice of ourself, return
GBN_Select(c) ==
    /\ call[c].pc = "range"
    /\ call[c].op = "GetBestNode"
    /\ (DOMAIN Nodes) \subseteq call[c].visited
    /\ nodesLock' = [nodesLock EXCEPT !.readers = @ \ {c}]
    /\ \E ret \in bestNodeResults(call[c].nodesList, call[c].redirectPrefixes,
                                  call[c].streamID, call[c].latf, call[c].lonf) :
          call' = [call EXCEPT ![c] = Returned(call[c], ret)]
    /\ UNCHANGED <<Nodes, um, now, h>>

\* ---------------------------------------------- MistUtilLoadSource
MULS_Start(c) ==
    /\ call[c].pc = "idle"
    /\ \E q \in QueryOutcomes(now) : \E clocks \in ClockReadings(now, Len(q.rows)) :
          LET r == RefreshNodes(q.rows, q.fault, clocks)
              base == [IdleCall EXCEPT !.op = "MistUtilLoadSource", !.queried = TRUE]
          IN  /\ now' = ClockAfter(now, clocks)
              /\ \E args \in MistUtilLoadSourceArgs :
                    call' = [call EXCEPT ![c] =
                       IF r.err # ""
                       THEN Returned(base, [NoRet EXCEPT !.err = "error refreshing nodes",
                                                          !.cause = r.err])
                       ELSE [base EXCEPT !.pc = "rlock", !.s = r.s, !.streamID = args[1]]]
    /\ UNCHANGED <<Nodes, nodesLock, um, h>>

\* s.IngestStreams[nodeName][streamID], ok
ingestLookup(s, nodeName, streamID) ==
    /\ nodeName \in DOMAIN s.IngestStreams
    /\ streamID \in DOMAIN s.IngestStreams[nodeName]

\* loadSourceHit without the staleness test
loadSourceHit_IgnoresStale(s, nodeName, streamID, clock) ==
    [NoRet EXCEPT !.addr = <<"dtsc://", nodeName>>]

\* what the loop body returns when nodeName holds the ingest stream
loadSourceHit(s, nodeName, streamID, clock) ==
    IF isStale(s.IngestStreams[nodeName][streamID].Timestamp, ingestStreamTimeout, clock)
    THEN [NoRet EXCEPT !.err = "no node found for ingest stream, stale: true"]
    ELSE [NoRet EXCEPT !.addr = <<"dtsc://", nodeName>>]

\* one iteration of the loop over c.Nodes: a hit returns, a miss goes on
MULS_Range(c) ==
    /\ call[c].pc = "range"
    /\ call[c].op = "MistUtilLoadSource"
    /\ \E nodeName \in (DOMAIN Nodes) \ call[c].visited :
          LET cl == [call[c] EXCEPT !.visited = @ \cup {nodeName},
                                    !.seen = @ \cup {Nodes[nodeName]}]
          IN  IF ingestLookup(cl.s, nodeName, cl.streamID)
              THEN /\ call' = [call EXCEPT ![c] =
                          Returned(cl, loadSourceHit(cl.s, nodeName, cl.streamID, now))]
                   /\ nodesLock' = [nodesLock EXCEPT !.readers = @ \ {c}]
              ELSE /\ call' = [call EXCEPT ![c] = cl]
                   /\ UNCHANGED nodesLock
    /\ UNCHANGED <<Nodes, um, now, h>>

\* the loop ends without a hit
MULS_NotFound(c) ==
    /\ call[c].pc = "range"
    /\ call[c].op = "MistUtilLoadSource"
    /\ (DOMAIN Nodes) \subseteq call[c].visited
    /\ nodesLock' = [nodesLock EXCEPT !.readers = @ \ {c}]
    /\ call' = [call EXCEPT ![c] =
          Returned(call[c],
                   [NoRet EXCEPT !.err = "no node found for ingest stream, stale: false"])]
    /\ UNCHANGED <<Nodes, um, now, h>>

\* the caller takes the result
Return(c) ==
    /\ call[c].pc = "done"
    /\ call' = [call EXCEPT ![c] = IdleCall]
    /\ UNCHANGED <<Nodes, nodesLock, um, now, h>>

vars == <<Nodes, nodesLock, um, now, call, h>>

Init == SysInit /\ h = HIdle

Next ==
    \/ Tick
    \/ UM_Lock
    \/ UM_Commit
    \/ \E c \in Callers : GBN_Start(c)
    \/ \E c \in Callers : RLock(c)
    \/ \E c \in Callers : GBN_Range(c)
    \/ \E c \in Callers : GBN_Select(c)
    \/ \E c \in Callers : MULS_Start(c)
    \/ \E c \in Callers : MULS_Range(c)
    \/ \E c \in Callers : MULS_NotFound(c)
    \/ \E c \in Callers : Return(c)

Spec == Init /\ [][Next]_vars

\* ------------------------------------------- the selection engine alone
\* SelectNode applied to candidate lists of up to MaxCands nodes, each as
\* createScoredNodes builds it.  The outcomes of SelectNode do not depend on the
\* order of its input (every tier is shuffled or sorted), so the lists are
\* taken in one order of their contents.
CandNames == <<"n1", "n2", "n3", "n4", "n5", "n6">>

LoadChoices == {<<10, 10, 10>>, <<10, 60, 10>>, <<10, 10, 90>>}

CandKinds ==
    {[la |-> la, load |-> load, has |-> has] :
        la \in 0..2, load \in LoadChoices, has \in BOOLEAN}

KindRank(k) ==
    6 * k.la + 2 * (CHOOSE i \in 0..2 : <<<<10, 10, 10>>, <<10, 60, 10>>, <<10, 10, 90>>>>[i + 1] = k.load)
    + (IF k.has THEN 1 ELSE 0)

Candidate(i, k) ==
    [Score |-> 0, GeoScore |-> 0, StreamScore |-> 0, GeoDistance |-> 0,
     Node |-> [Name |-> CandNames[i], DTSC |-> "d1"],
     Streams |-> IF k.has
                 THEN [id \in {<<"x">>} |->
                          [ID |-> <<"v", "+", "x">>, PlaybackID |-> <<"x">>, Timestamp |-> 0]]
                 ELSE EmptyMap,
     IngestStreams |-> EmptyMap,
     NodeMetrics |-> [c |-> k.load[1], r |-> k.load[2], b |-> k.load[3], l |-> 1,
                      la |-> k.la, lo |-> 0, t |-> 0]]

CandidateLists ==
    {[i \in 1..Len(ks) |-> Candidate(i, ks[i])] :
        ks \in {q \in SeqsUpTo(CandKinds, MaxCands) :
                  \A i \in 1..(Len(q) - 1) : KindRank(q[i]) <= KindRank(q[i + 1])}}

SelInit ==
    h \in {[pc |-> "call", nodes |-> l, topNodes |-> <<>>, node |-> ZeroNode, err |-> ""] :
              l \in CandidateLists}

\* SelectNode(nodes, "x", 0, 0)
SEL_SelectNode ==
    /\ h.pc = "call"
    /\ \E out \in SelectNode(h.nodes, <<"x">>, 0, 0) :
          h' = [h EXCEPT !.pc = "done", !.topNodes = out.topNodes,
                         !.node = out.node, !.err = out.err]
    /\ UNCHANGED sysVars

InitSelect == SysInit /\ SelInit

NextSelect == SEL_SelectNode

SpecSelect == InitSelect /\ [][NextSelect]_vars

\* ------------------------------------------------ UpdateMembers alone
\* UpdateMembers applied, twice, to lists of up to MaxMemberList members over a
\* registry that an earlier UpdateMembers installed.
MaxMemberList == 3

AnyMemberChoices ==
    {[Name |-> n, node |-> tag, dtsc |-> d] :
        n \in {"A", "B"}, tag \in {"media", "test"}, d \in {"d1", "d2"}}

EarlierMemberLists ==
    SeqsUpTo({[Name |-> n, node |-> "media", dtsc |-> "d1"] : n \in {"A", "C"}}, 2)

MembersInit ==
    h \in {[pc |-> "call", old |-> UpdateMembers(EmptyMap, earlier), members |-> members,
            nodes |-> EmptyMap, again |-> EmptyMap] :
              earlier \in EarlierMemberLists,
              members \in SeqsUpTo(AnyMemberChoices, MaxMemberList)}

\* c.UpdateMembers(ctx, members) on the registry old
UMH_First ==
    /\ h.pc = "call"
    /\ h' = [h EXCEPT !.pc = "once", !.nodes = UpdateMembers(h.old, h.members)]
    /\ UNCHANGED sysVars

\* c.UpdateMembers(ctx, members) once more
UMH_Again ==
    /\ h.pc = "once"
    /\ h' = [h EXCEPT !.pc = "twice", !.again = UpdateMembers(h.nodes, h.members)]
    /\ UNCHANGED sysVars

InitMembers == SysInit /\ MembersInit

NextMembers == UMH_First \/ UMH_Again

SpecMembers == InitMembers /\ [][NextMembers]_vars

\* ----------------------------------------- whole calls on a given store
\* createScoredNodes over a registry that does not change: the lists it can
\* build, one for each order in which the loop can visit c.Nodes
RECURSIVE scoreNodes(_, _, _, _)
scoreNodes(nodesList, s, order, clock) ==
    IF order = <<>> THEN nodesList
    ELSE scoreNodes(scoreNode(nodesList, s, Head(order), clock), s, Tail(order), clock)

\* the orders in which a loop over the map nodes can visit it
VisitOrders(nodes) ==
    LET names == DOMAIN nodes
        n == Cardinality(names)
    IN  {[i \in 1..n |-> nodes[f[i]]] :
            f \in {g \in [1..n -> names] : \A i, j \in 1..n : i # j => g[i] # g[j]}}

createScoredNodes(nodes, s, clock) ==
    {scoreNodes(<<>>, s, order, clock) : order \in VisitOrders(nodes)}

\* what GetBestNode can return when the driver reports fault, the rows loop
\* reads clocks and createScoredNodes reads clock; ctx is whether the context
\* is live or canceled
GetBestNode(ctx, nodes, rows, fault, clocks, clock, args) ==
    LET r == RefreshNodes(rows, fault, clocks)
        la == parseCoord(args[3])
        lo == parseCoord(args[4])
    IN  IF r.err # "" THEN {[NoRet EXCEPT !.err = "error refreshing nodes", !.cause = r.err]}
        ELSE IF la.err # "" THEN {[NoRet EXCEPT !.err = la.err]}
        ELSE IF lo.err # "" THEN {[NoRet EXCEPT !.err = lo.err]}
        ELSE UNION {bestNodeResults(scoredNodes, args[1], args[2], la.v, lo.v) :
                       scoredNodes \in createScoredNodes(nodes, r.s, clock)}

\* the loop of MistUtilLoadSource over the nodes left to visit
RECURSIVE loadSource(_, _, _, _)
loadSource(s, order, streamID, clock) ==
    IF order = <<>>
    THEN [NoRet EXCEPT !.err = "no node found for ingest stream, stale: false"]
    ELSE IF ingestLookup(s, Head(order).Name, streamID)
    THEN loadSourceHit(s, Head(order).Name, streamID, clock)
    ELSE loadSource(s, Tail(order), streamID, clock)

\* what MistUtilLoadSource can return
MistUtilLoadSource(ctx, nodes, rows, fault, clocks, clock, args) ==
    LET r == RefreshNodes(rows, fault, clocks)
    IN  IF r.err # "" THEN {[NoRet EXCEPT !.err = "error refreshing nodes", !.cause = r.err]}
        ELSE {loadSource(r.s, order, args[1], clock) : order \in VisitOrders(nodes)}

\* the store with every row that decodes and is stale at clock deleted; rows
\* is paired with the clock readings of the rows loop
RECURSIVE PurgeStale(_, _, _)
PurgeStale(rows, clocks, clock) ==
    IF rows = <<>> THEN [rows |-> <<>>, clocks |-> <<>>]
    ELSE LET rest == PurgeStale(Tail(rows), Tail(clocks), clock)
             u == Unmarshal(Head(rows))
         IN  IF u.err = "" /\ clock - u.event.nm.t >= metricTimeout
             THEN rest
             ELSE [rows |-> <<Head(rows)>> \o rest.rows,
                   clocks |-> <<Head(clocks)>> \o rest.clocks]

StoreRegistries == {UpdateMembers(EmptyMap, members) : members \in MemberLists}

\* context.Context as the callee can observe it
Contexts == {"live", "canceled"}

StoreCalls ==
    {[op |-> "GetBestNode", args |-> a, ctx |-> "live"] : a \in GetBestNodeArgs}
    \cup {[op |-> "GetBestNode", args |-> a, ctx |-> "canceled"] :
            a \in {b \in GetBestNodeArgs : b[5] = "" /\ ~b[6]}}
    \cup {[op |-> "MistUtilLoadSource", args |-> a, ctx |-> x] :
            a \in MistUtilLoadSourceArgs, x \in Contexts}

\* the call starts at time 0; the rows loop reads clocks, the loop over the
\* registry reads clock
StoreTimings ==
    UNION {{[rows |-> q.rows, fault |-> q.fault, clocks |-> clocks, clock |-> clock] :
               clocks \in ClockReadings(0, Len(q.rows)), clock \in 0..MaxTime} :
              q \in QueryOutcomes(0)}

StoreInit ==
    h \in {[pc |-> "call", nodes |-> nodes, rows |-> x.rows, fault |-> x.fault,
            clocks |-> x.clocks, clock |-> x.clock,
            op |-> c.op, args |-> c.args, ctx |-> c.ctx, rets |-> {}, purged |-> {}] :
              nodes \in StoreRegistries, c \in StoreCalls,
              x \in {y \in StoreTimings : y.clock >= ClockAfter(0, y.clocks)}}

CallResults(op, ctx, nodes, rows, fault, clocks, clock, args) ==
    IF op = "GetBestNode" THEN GetBestNode(ctx, nodes, rows, fault, clocks, clock, args)
    ELSE MistUtilLoadSource(ctx, nodes, rows, fault, clocks, clock, args)

\* the call on the store as it is, and on the store purged beforehand
STORE_Call ==
    /\ h.pc = "call"
    /\ Len(h.clocks) = Len(h.rows)
    /\ h.clock >= ClockAfter(0, h.clocks)
    /\ LET p == PurgeStale(h.rows, h.clocks, 0) IN
       h' = [h EXCEPT !.pc = "done",
                      !.rets = CallResults(h.op, h.ctx, h.nodes, h.rows, h.fault,
                                           h.clocks, h.clock, h.args),
                      !.purged = CallResults(h.op, h.ctx, h.nodes, p.rows, h.fault,
                                             p.clocks, h.clock, h.args)]
    /\ UNCHANGED sysVars

InitStore == SysInit /\ StoreInit

NextStore == STORE_Call

SpecStore == InitStore /\ [][NextStore]_vars

\* ------------------------------------------------ the event codec alone
\* SetStreams applied to two lists of up to MaxStreams stream IDs, then
\* GetStreams and GetIngestStreams applied to the string it stored.
MaxStreams == 2

StreamIDChoices ==
    {<<>>, <<"x">>, <<"v", "+", "x">>, <<"x", "|", "y">>, <<"x", "~", "y">>}

StreamIDLists == SeqsUpTo(StreamIDChoices, MaxStreams)

CodecInit ==
    h \in {[pc |-> "call", a |-> a, b |-> b, Streams |-> <<>>,
            streams |-> <<>>, ingest |-> <<>>] :
              a \in StreamIDLists, b \in StreamIDLists}

\* n.SetStreams(a, b)
CODEC_SetStreams ==
    /\ h.pc = "call"
    /\ h' = [h EXCEPT !.pc = "set", !.Streams = SetStreams(h.a, h.b)]
    /\ UNCHANGED sysVars

\* n.GetStreams() and n.GetIngestStreams()
CODEC_Get ==
    /\ h.pc = "set"
    /\ h' = [h EXCEPT !.pc = "done", !.streams = GetStreams(h.Streams),
                      !.ingest = GetIngestStreams(h.Streams)]
    /\ UNCHANGED sysVars

InitCodec == SysInit /\ CodecInit

NextCodec == CODEC_SetStreams \/ CODEC_Get

SpecCodec == InitCodec /\ [][NextCodec]_vars

\* ------------------------------------------------- GetLoadScore alone
\* GetLoadScore applied to a node with each usage percentage and the load
\* average drawn from values at and around the thresholds.
UsageChoices == {0, 50, 51, 85, 86, 100}

LoadAvgChoices == {0, 1, 99}

LoadInit ==
    h \in {[pc |-> "call",
            node |-> [Score |-> 0, GeoScore |-> 0, StreamScore |-> 0, GeoDistance |-> 0,
                      Node |-> [Name |-> "A", DTSC |-> "d1"],
                      Streams |-> EmptyMap, IngestStreams |-> EmptyMap,
                      NodeMetrics |-> [c |-> c, r |-> r, b |-> b, l |-> l,
                                       la |-> 0, lo |-> 0, t |-> 0]],
            score |-> 0 - 1] :
              c \in UsageChoices, r \in UsageChoices, b \in UsageChoices,
              l \in LoadAvgChoices}

\* n.GetLoadScore()
LOAD_GetLoadScore ==
    /\ h.pc = "call"
    /\ h' = [h EXCEPT !.pc = "done", !.score = GetLoadScore(h.node)]
    /\ UNCHANGED sysVars

InitLoad == SysInit /\ LoadInit

NextLoad == LOAD_GetLoadScore

SpecLoad == InitLoad /\ [][NextLoad]_vars

\* ------------------------------------ RefreshNodes and scoring alone
\* RefreshNodes applied to row lists of up to MaxRows rows whose events list
\* streams with a prefix, without one, with two "+", as playback or as ingest
\* streams; then createScoredNodes applied to the snapshot.
EventStreamChoices ==
    {SetStreams(<< <<"v", "+", "x">> >>, <<>>),
     SetStreams(<<>>, << <<"v", "+", "x">> >>),
     SetStreams(<< <<"x">> >>, <<>>),
     SetStreams(<< <<"v", "+", "w", "+", "x">> >>, << <<"y">> >>),
     SetStreams(<<>>, <<>>)}

EventRowChoices ==
    {[json |-> TRUE, n |-> n,
      nm |-> [c |-> 10, r |-> 10, b |-> 10, l |-> 1, la |-> 0, lo |-> 0, t |-> 0 - age],
      s |-> s] :
        n \in NodeNames, s \in EventStreamChoices, age \in (0 - MaxSkew)..metricTimeout}
    \cup {Garbage}

EventTimings ==
    UNION {{[rows |-> rows, clocks |-> clocks, clock |-> clock] :
               clocks \in ClockReadings(0, Len(rows)), clock \in 0..MaxTime} :
              rows \in SeqsUpTo(EventRowChoices, MaxRows)}

EventRegistries ==
    {UpdateMembers(EmptyMap, members) :
        members \in SeqsUpTo({[Name |-> n, node |-> "media", dtsc |-> "d1"] : n \in NodeNames},
                             MaxMembers)}

\* seq read in the order p
Permute(seq, p) == [i \in 1..Len(seq) |-> seq[p[i]]]

\* what RefreshNodes returns for each order of reading the rows, every row
\* read at the clock reading it has in clocks
RefreshInOrders(rows, clocks) ==
    {RefreshNodes(Permute(rows, p), "", Permute(clocks, p)) :
        p \in Permutations(1..Len(rows))}

RefreshInit ==
    h \in {[pc |-> "call", nodes |-> nodes, rows |-> x.rows, clocks |-> x.clocks,
            clock |-> x.clock, res |-> [s |-> NewStats, err |-> ""], orders |-> {},
            scored |-> {}] :
              nodes \in EventRegistries,
              x \in {y \in EventTimings : y.clock >= ClockAfter(0, y.clocks)}}

\* s, err := c.RefreshNodes()
RF_RefreshNodes ==
    /\ h.pc = "call"
    /\ h' = [h EXCEPT !.pc = "refreshed",
                      !.res = RefreshNodes(h.rows, "", h.clocks),
                      !.orders = RefreshInOrders(h.rows, h.clocks)]
    /\ UNCHANGED sysVars

\* scoredNodes := c.createScoredNodes(s)
RF_createScoredNodes ==
    /\ h.pc = "refreshed"
    /\ h.res.err = ""
    /\ h' = [h EXCEPT !.pc = "done",
                      !.scored = createScoredNodes(h.nodes, h.res.s, h.clock)]
    /\ UNCHANGED sysVars

InitRefresh == SysInit /\ RefreshInit

NextRefresh == RF_RefreshNodes \/ RF_createScoredNodes

SpecRefresh == InitRefresh /\ [][NextRefresh]_vars

\* ------------------------------------------ the event-driven balancer
\* The balancer of catalyst_balancer.go keeps Streams, IngestStreams and
\* NodeMetrics as fields, written by UpdateNodes and UpdateStreams as node
\* update events arrive and purged by UpdateMembers.  Every operation holds
\* nodesLock from its first statement to its return, so each is one step.
\* b is the balancer, clock the reading of time.Now() during the call.
UpdateEvery == 2

\* NewBalancer
NewEventBalancer ==
    [Nodes |-> EmptyMap, Streams |-> EmptyMap, IngestStreams |-> EmptyMap,
     NodeMetrics |-> EmptyMap]

RECURSIVE Bal_latestNodes(_, _)
Bal_latestNodes(latestNodes, members) ==
    IF members = <<>> THEN latestNodes
    ELSE Bal_latestNodes(MapPut(latestNodes, Head(members).Name,
                                [Name |-> Head(members).Name, DTSC |-> Head(members).dtsc]),
                         Tail(members))

\* UpdateMembers that replaces the registry and keeps the stream and metric data
Bal_UpdateMembers_KeepsData(b, members) ==
    [b EXCEPT !.Nodes = Bal_latestNodes(EmptyMap, members)]

Bal_UpdateMembers(b, members) ==
    LET latestNodes == Bal_latestNodes(EmptyMap, members)
        Kept(m) == MapRestrict(m, DOMAIN m \cap DOMAIN latestNodes)
    IN  [Nodes |-> latestNodes,
         Streams |-> Kept(b.Streams),
         IngestStreams |-> Kept(b.IngestStreams),
         NodeMetrics |-> Kept(b.NodeMetrics)]

\* UpdateNodes without the registry test
Bal_UpdateNodes_AnyNode(b, id, nodeMetrics, clock) ==
    [b EXCEPT !.NodeMetrics = MapPut(b.NodeMetrics, id, [nodeMetrics EXCEPT !.t = clock])]

Bal_UpdateNodes(b, id, nodeMetrics, clock) ==
    IF id \notin DOMAIN b.Nodes THEN b
    ELSE [b EXCEPT !.NodeMetrics = MapPut(b.NodeMetrics, id, [nodeMetrics EXCEPT !.t = clock])]

removeOldStreams(streams, stale, clock) ==
    MapRestrict(streams, {s \in DOMAIN streams : ~isStale(streams[s].Timestamp, stale, clock)})

\* removeOldStreams(m[nodeName], ...): a node without a map has a nil one,
\* which the loop leaves alone
Bal_cleaned(m, nodeName, clock) ==
    IF nodeName \in DOMAIN m
    THEN MapPut(m, nodeName, removeOldStreams(m[nodeName], UpdateEvery, clock))
    ELSE m

\* m[nodeName][streamID] = Stream{...}, making the node's map when it is nil
Bal_putStream(m, nodeName, streamID, clock) ==
    MapPut(m, nodeName,
           MapPut(IF nodeName \in DOMAIN m THEN m[nodeName] ELSE EmptyMap,
                  streamID, [ID |-> streamID, Timestamp |-> clock]))

Bal_UpdateStreams(b, nodeName, streamID, isIngest, clock) ==
    IF nodeName \notin DOMAIN b.Nodes THEN b
    ELSE LET streams == Bal_cleaned(b.Streams, nodeName, clock)
             ingest == Bal_cleaned(b.IngestStreams, nodeName, clock)
         IN  IF isIngest
             THEN [b EXCEPT !.Streams = streams,
                            !.IngestStreams = Bal_putStream(ingest, nodeName, streamID, clock)]
             ELSE [b EXCEPT !.Streams = Bal_putStream(streams, nodeName, streamID, clock),
                            !.IngestStreams = ingest]

BalMemberLists ==
    SeqsUpTo({[Name |-> n, dtsc |-> "d1"] : n \in NodeNames}, MaxMembers)

BalStreamIDs == {<<"v", "+", "x">>}

BalMetrics == [ZeroMetrics EXCEPT !.c = 10, !.r = 10, !.b = 10]

\* op and id are the operation of the last call and the node it named;
\* purged are the nodes whose data the last UpdateMembers deleted
BalInit ==
    h = [b |-> NewEventBalancer, clock |-> 0, op |-> "", id |-> "", purged |-> {}]

BAL_Tick ==
    /\ h.clock < MaxTime
    /\ h' = [h EXCEPT !.clock = h.clock + 1, !.op = "", !.id = "", !.purged = {}]
    /\ UNCHANGED sysVars

BAL_UpdateMembers ==
    /\ \E members \in BalMemberLists :
          LET after == Bal_UpdateMembers(h.b, members) IN
          h' = [h EXCEPT !.b = after, !.op = "UpdateMembers", !.id = "",
                         !.purged = (DOMAIN h.b.Streams \cup DOMAIN h.b.IngestStreams
                                     \cup DOMAIN h.b.NodeMetrics) \ DOMAIN after.Nodes]
    /\ UNCHANGED sysVars

\* c.bal.UpdateNodes(event.NodeID, event.NodeMetrics)
BAL_UpdateNodes ==
    /\ \E id \in NodeNames :
          h' = [h EXCEPT !.b = Bal_UpdateNodes(h.b, id, BalMetrics, h.clock),
                         !.op = "UpdateNodes", !.id = id, !.purged = {}]
    /\ UNCHANGED sysVars

\* c.bal.UpdateStreams(event.NodeID, stream, false) and (..., stream, true)
BAL_UpdateStreams ==
    /\ \E nodeName \in NodeNames, streamID \in BalStreamIDs, isIngest \in BOOLEAN :
          h' = [h EXCEPT !.b = Bal_UpdateStreams(h.b, nodeName, streamID, isIngest, h.clock),
                         !.op = "UpdateStreams", !.id = nodeName, !.purged = {}]
    /\ UNCHANGED sysVars

InitEvents == SysInit /\ BalInit

NextEvents == BAL_Tick \/ BAL_UpdateMembers \/ BAL_UpdateNodes \/ BAL_UpdateStreams

SpecEvents == InitEvents /\ [][NextEvents]_vars

\* =====================================================================
\* Claims
\* =====================================================================
Names(nodesList) == {nodesList[i].Node.Name : i \in 1..Len(nodesList)}

GBNDone(c) == call[c].pc = "done" /\ call[c].op = "GetBestNode"

\* C1 as stated: the node name GetBestNode returns on success is the name of a
\* node present in the current registry.
C1_InCurrentRegistry ==
    \A c \in Callers :
        GBNDone(c) /\ call[c].ret.err = "" => call[c].ret.node \in DOMAIN Nodes

\* C1, amended: the node name GetBestNode returns on success is the name of a
\* node of the registry the call read under the read lock, or, when no
\* candidate was scored, the local NodeName.
C1_InRegistryReadOrSelf ==
    \A c \in Callers :
        GBNDone(c) /\ call[c].ret.err = "" =>
            \/ call[c].ret.node \in DOMAIN call[c].ver
            \/ call[c].scored = {} /\ call[c].ret.node = NodeName

\* C1 witness: a successful GetBestNode returned a scored registry node other
\* than the local node.
C1_Witness ==
    \E c \in Callers :
        /\ GBNDone(c) /\ call[c].ret.err = ""
        /\ call[c].ret.node \in call[c].scored
        /\ call[c].ret.node \in DOMAIN call[c].ver
        /\ call[c].ret.node # NodeName

\* ---- selection engine (SpecSelect): the request is stream "x" at (0, 0)
SelGeo == geoScores(h.nodes, 0, 0)

SelTier1 ==
    {i \in 1..Len(h.nodes) :
        SelGeo[i].GeoScore = 2 /\ HasStream(SelGeo[i], <<"x">>) /\ GetLoadScore(SelGeo[i]) = 2}

SelTier2 ==
    {i \in 1..Len(h.nodes) : SelGeo[i].GeoScore = 2 /\ GetLoadScore(SelGeo[i]) = 2}

\* C2: when some candidate has GeoScore 2, serves the stream and has load
\* score 2, selectTopNodes returns only such candidates and SelectNode's
\* choice is one of them (the only one, when there is exactly one).
C2_Tier1Precedence ==
    h.pc = "done" /\ SelTier1 # {} =>
        /\ h.err = ""
        /\ Len(h.topNodes) > 0
        /\ \A j \in 1..Len(h.topNodes) :
              /\ h.topNodes[j].Node.Name \in {h.nodes[i].Node.Name : i \in SelTier1}
              /\ h.topNodes[j].GeoScore = 2
              /\ HasStream(h.topNodes[j], <<"x">>)
              /\ GetLoadScore(h.topNodes[j]) = 2
        /\ h.node.Name \in {h.nodes[i].Node.Name : i \in SelTier1}

\* C2 witness: exactly one candidate of several is in tier 1, and it was chosen.
C2_Witness ==
    /\ h.pc = "done"
    /\ Cardinality(SelTier1) = 1
    /\ Len(h.nodes) >= 3
    /\ Cardinality(SelTier2) >= 2
    /\ h.node.Name \in {h.nodes[i].Node.Name : i \in SelTier1}

\* C3: when no candidate is in tier 1 and some candidate has GeoScore 2 and
\* load score 2, selectTopNodes returns at most 3 candidates, all of them such,
\* the choice is one of them, and no Score was computed.
C3_Tier2 ==
    h.pc = "done" /\ SelTier1 = {} /\ SelTier2 # {} =>
        /\ h.err = ""
        /\ Len(h.topNodes) >= 1 /\ Len(h.topNodes) <= 3
        /\ \A j \in 1..Len(h.topNodes) :
              /\ h.topNodes[j].Node.Name \in {h.nodes[i].Node.Name : i \in SelTier2}
              /\ h.topNodes[j].GeoScore = 2
              /\ GetLoadScore(h.topNodes[j]) = 2
              /\ h.topNodes[j].Score = 0
        /\ h.node.Name \in {h.nodes[i].Node.Name : i \in SelTier2}

\* C3 witness: four candidates in tier 2, none in tier 1, three returned.
C3_Witness ==
    /\ h.pc = "done"
    /\ SelTier1 = {}
    /\ Cardinality(SelTier2) = 4
    /\ Len(h.topNodes) = 3

\* the Score tier 3 is to give candidate i
SelExpectedScore(i) ==
    SelGeo[i].GeoScore + GetLoadScore(SelGeo[i])
    + (IF HasStream(SelGeo[i], <<"x">>) THEN 2 ELSE 0)

Min(a, b) == IF a < b THEN a ELSE b

\* C4: when tiers 1 and 2 are empty, selectTopNodes returns min(3, n) distinct
\* candidates, each with Score = GeoScore + GetLoadScore() + (2 if it serves
\* the stream), and no candidate left out has a Score strictly higher than a
\* candidate returned.
C4_Tier3 ==
    h.pc = "done" /\ SelTier1 = {} /\ SelTier2 = {} /\ Len(h.nodes) > 0 =>
        /\ Len(h.topNodes) = Min(3, Len(h.nodes))
        /\ Cardinality(Names(h.topNodes)) = Len(h.topNodes)
        /\ \A j \in 1..Len(h.topNodes) :
              \E i \in 1..Len(h.nodes) :
                 /\ h.nodes[i].Node.Name = h.topNodes[j].Node.Name
                 /\ h.topNodes[j].Score = SelExpectedScore(i)
        /\ \A i \in 1..Len(h.nodes) :
              h.nodes[i].Node.Name \notin Names(h.topNodes) =>
                 \A j \in 1..Len(h.topNodes) : ~(SelExpectedScore(i) > h.topNodes[j].Score)

\* C4 witness: four candidates, none in tier 1 or 2, the one left out scores
\* strictly less than one returned and ties with another returned.
C4_Witness ==
    /\ h.pc = "done"
    /\ SelTier1 = {} /\ SelTier2 = {}
    /\ Len(h.nodes) = 4
    /\ Len(h.topNodes) = 3
    /\ \E i \in 1..Len(h.nodes) :
          /\ h.nodes[i].Node.Name \notin Names(h.topNodes)
          /\ SelExpectedScore(i) < h.topNodes[1].Score
          /\ SelExpectedScore(i) = h.topNodes[3].Score
          /\ SelExpectedScore(i) > 0

\* ---- GetBestNode and MistUtilLoadSource (Spec)
\* no node of the registry the call reads has metrics in the call's snapshot
NoMetricsInRegistry(cl) == \A n \in DOMAIN cl.ver : n \notin DOMAIN cl.s.NodeMetrics

\* C5: when the refresh succeeded, lat and lon parsed, and createScoredNodes
\* ends with no candidate (as it does when no registry node has metrics, or
\* the registry is empty), GetBestNode returns NodeName, the prefixed stream
\* name and no error.
C5_SelfFallback ==
    [][\A c \in Callers :
          /\ call[c].pc = "range" /\ call[c].op = "GetBestNode" /\ call'[c].pc = "done"
          /\ (call[c].nodesList = <<>> \/ NoMetricsInRegistry(call[c]))
          => /\ call[c].nodesList = <<>>
             /\ call'[c].ret.err = ""
             /\ call'[c].ret.node = NodeName
             /\ call'[c].ret.stream = streamName(call[c].redirectPrefixes, call[c].streamID)]_vars

\* C5 witness: GetBestNode returned NodeName without error, having scored no
\* candidate of a non-empty registry that does not hold NodeName.
C5_Witness ==
    \E c \in Callers :
        /\ GBNDone(c) /\ call[c].ret.err = "" /\ call[c].ret.node = NodeName
        /\ call[c].scored = {}
        /\ call[c].ver # EmptyMap /\ call[c].seen = Range(call[c].ver)
        /\ NodeName \notin DOMAIN call[c].ver

\* the stream entries of node n in snapshot s
StreamsOf(s, n) == IF n \in DOMAIN s.Streams THEN s.Streams[n] ELSE EmptyMap

\* C6: an iteration of createScoredNodes appends the registry node exactly when
\* the snapshot has metrics for it with now - Timestamp < metricTimeout (an age
\* equal to the timeout is stale), and the appended node's Streams holds
\* exactly the node's stream entries with now - Timestamp < metricTimeout.
C6_StalenessBoundary ==
    [][\A c \in Callers :
          call[c].pc = "range" /\ call[c].op = "GetBestNode" /\ call'[c].pc = "range" =>
             \A n \in call'[c].visited \ call[c].visited :
                LET s == call[c].s
                    old == call[c].nodesList
                    new == call'[c].nodesList
                    young == /\ n \in DOMAIN s.NodeMetrics
                             /\ now - s.NodeMetrics[n].t < metricTimeout
                    all == StreamsOf(s, n)
                IN  IF young
                    THEN /\ Len(new) = Len(old) + 1
                         /\ SubSeq(new, 1, Len(old)) = old
                         /\ new[Len(new)].Node = Nodes[n]
                         /\ DOMAIN new[Len(new)].Streams =
                               {id \in DOMAIN all : now - all[id].Timestamp < metricTimeout}
                         /\ \A id \in DOMAIN new[Len(new)].Streams :
                               new[Len(new)].Streams[id] = all[id]
                    ELSE new = old]_vars

\* C6 witness: the loop has read two registry nodes; one has metrics of age
\* exactly metricTimeout and is not a candidate, the other is a candidate whose
\* metrics are younger and whose only stream entry, of age metricTimeout, is
\* left out of its Streams.
C6_Witness ==
    \E c \in Callers :
        /\ call[c].pc = "range" /\ call[c].op = "GetBestNode"
        /\ Cardinality(call[c].visited) = 2
        /\ Len(call[c].nodesList) = 1
        /\ \E n \in call[c].visited :
              /\ n \in DOMAIN call[c].s.NodeMetrics
              /\ now - call[c].s.NodeMetrics[n].t = metricTimeout
              /\ n # call[c].nodesList[1].Node.Name
        /\ LET m == call[c].nodesList[1].Node.Name IN
              /\ now - call[c].s.NodeMetrics[m].t < metricTimeout
              /\ call[c].nodesList[1].Streams = EmptyMap
              /\ \E id \in DOMAIN StreamsOf(call[c].s, m) :
                    now - StreamsOf(call[c].s, m)[id].Timestamp = metricTimeout

\* C6 witness, second case: a candidate was appended with a stream entry
\* younger than metricTimeout in its Streams.
C6_WitnessYoung ==
    \E c \in Callers :
        /\ call[c].pc = "range" /\ call[c].op = "GetBestNode"
        /\ Len(call[c].nodesList) = 1
        /\ DOMAIN call[c].nodesList[1].Streams # {}

\* C9: while a reader is in its pass over c.Nodes it holds the read lock, no
\* writer holds the lock and c.Nodes is the registry the reader found when it
\* took the lock; every entry a pass has read is an entry of that one
\* registry, and a pass that ran to the end has read all of them.
C9_NoPartialUpdate ==
    \A c \in Callers :
        /\ call[c].pc = "range" =>
              /\ c \in nodesLock.readers
              /\ ~nodesLock.writer
              /\ Nodes = call[c].ver
        /\ call[c].pc \in {"range", "done"} => call[c].seen \subseteq Range(call[c].ver)
        /\ call[c].pc = "done" /\ call[c].op = "GetBestNode" =>
              call[c].seen = Range(call[c].ver)
        /\ /\ call[c].pc = "done" /\ call[c].op = "MistUtilLoadSource"
           /\ call[c].ret.err = "no node found for ingest stream, stale: false"
           => call[c].seen = Range(call[c].ver)

\* C9 witness: a reader is at RLock while UpdateMembers holds the write lock
\* over a non-empty registry.
C9_Witness ==
    \E c \in Callers :
        /\ call[c].pc = "rlock"
        /\ um = "locked" /\ nodesLock.writer
        /\ Nodes # EmptyMap

\* C9 witness, second case: a pass read both nodes of a registry that
\* UpdateMembers has replaced by a different non-empty one since.
C9_WitnessReplaced ==
    \E c \in Callers :
        /\ call[c].pc = "done"
        /\ Cardinality(call[c].seen) = 2 /\ call[c].seen = Range(call[c].ver)
        /\ Nodes # EmptyMap /\ Nodes # call[c].ver

\* the registry nodes whose ingest snapshot holds streamID, not stale at clock
FreshHolders(nodes, s, streamID, clock) ==
    {n \in DOMAIN nodes :
        /\ ingestLookup(s, n, streamID)
        /\ ~isStale(s.IngestStreams[n][streamID].Timestamp, ingestStreamTimeout, clock)}

\* C10 as stated: when the loop of MistUtilLoadSource returns, it returns
\* "dtsc://" + n for a registry node n whose ingest snapshot holds streamID,
\* not stale, exactly when there is such a node; otherwise it returns an error
\* and the empty address.
C10_SucceedsIffFreshHolder ==
    [][\A c \in Callers :
          call[c].pc = "range" /\ call[c].op = "MistUtilLoadSource" /\ call'[c].pc = "done" =>
             LET holders == FreshHolders(Nodes, call[c].s, call[c].streamID, now)
                 ret == call'[c].ret
             IN  IF holders # {}
                 THEN ret.err = "" /\ \E n \in holders : ret.addr = <<"dtsc://", n>>
                 ELSE ret.err # "" /\ ret.addr = <<>>]_vars

\* ---- UpdateMembers (SpecMembers)
\* the position of the last member of members named n and tagged "media"
LastMedia(members, n) ==
    CHOOSE i \in 1..Len(members) :
        /\ members[i].Name = n /\ members[i].node = "media"
        /\ \A j \in (i + 1)..Len(members) :
              ~(members[j].Name = n /\ members[j].node = "media")

\* C8: after UpdateMembers(members) the registry holds one Node for each name
\* that some member tagged node = "media" has, with that name and the dtsc tag
\* of the last such member, and nothing else, whatever the registry held
\* before; a second UpdateMembers(members) leaves the registry equal.
C8_ExactRegistry ==
    /\ h.pc \in {"once", "twice"} =>
          /\ DOMAIN h.nodes =
                {h.members[i].Name : i \in {j \in 1..Len(h.members) : h.members[j].node = "media"}}
          /\ \A n \in DOMAIN h.nodes :
                h.nodes[n] = [Name |-> n, DTSC |-> h.members[LastMedia(h.members, n)].dtsc]
    /\ h.pc = "twice" => h.again = h.nodes

\* C8 witness: UpdateMembers ran twice on members holding a "test" member and
\* two "media" members of one name with different dtsc tags, over a registry
\* that held a node no member names.
C8_Witness ==
    /\ h.pc = "twice"
    /\ "C" \in DOMAIN h.old
    /\ \E i, j, k \in 1..Len(h.members) :
          /\ h.members[i].node = "test" /\ h.members[i].Name \notin DOMAIN h.nodes
          /\ j < k /\ h.members[j].Name = h.members[k].Name
          /\ h.members[j].node = "media" /\ h.members[k].node = "media"
          /\ h.members[j].dtsc # h.members[k].dtsc
    /\ h.nodes # EmptyMap

\* ---- stale rows (SpecStore)
\* C7: when the driver reports no fault, GetBestNode and MistUtilLoadSource
\* can return on a store exactly what they can return on the store with every
\* stale row (metrics age >= metricTimeout when the call starts) deleted
\* beforehand.
C7_StaleIsAbsent ==
    h.pc = "done" /\ h.fault = "" => h.rets = h.purged

\* C7 witness: the store held a stale row of a registry node and a row of
\* another registry node, and the call returned without error.
C7_Witness ==
    /\ h.pc = "done" /\ h.fault = ""
    /\ Len(h.rows) = 2
    /\ Len(PurgeStale(h.rows, h.clocks, 0).rows) = 1
    /\ \A i \in 1..2 : h.rows[i].json /\ h.rows[i].n \in DOMAIN h.nodes
    /\ h.rows[1].n # h.rows[2].n
    /\ \E ret \in h.rets : ret.err = "" /\ (ret.node \notin {"", NodeName} \/ ret.addr # <<>>)

\* the registry nodes whose ingest snapshot holds streamID
RegistryHolders(nodes, s, streamID) ==
    {n \in DOMAIN nodes : ingestLookup(s, n, streamID)}

\* C11: when the loop of MistUtilLoadSource returns and every registry node
\* whose ingest snapshot holds streamID holds it with now - Timestamp >=
\* ingestStreamTimeout (and there is such a node), it returns the "stale: true"
\* error and no address; when no registry node holds it, it returns the
\* "stale: false" error and no address.
C11_StaleOnlyMatch ==
    [][\A c \in Callers :
          call[c].pc = "range" /\ call[c].op = "MistUtilLoadSource" /\ call'[c].pc = "done" =>
             LET s == call[c].s
                 holders == RegistryHolders(Nodes, s, call[c].streamID)
                 ret == call'[c].ret
             IN  /\ /\ holders # {}
                    /\ \A n \in holders :
                          now - s.IngestStreams[n][call[c].streamID].Timestamp
                             >= ingestStreamTimeout
                    => /\ ret.err = "no node found for ingest stream, stale: true"
                       /\ ret.addr = <<>>
                 /\ holders = {} =>
                       /\ ret.err = "no node found for ingest stream, stale: false"
                       /\ ret.addr = <<>>]_vars

\* C11 witness: MistUtilLoadSource found the stream at a registry node, stale,
\* and returned the "stale: true" error.
C11_Witness ==
    \E c \in Callers :
        /\ call[c].pc = "done" /\ call[c].op = "MistUtilLoadSource"
        /\ call[c].seen # {}
        /\ call[c].ret.err = "no node found for ingest stream, stale: true"
        /\ call[c].ret.addr = <<>>

\* ---- whole calls (SpecStore) and the order of refresh and validation (Spec)
\* a non-empty string that is not a decimal number
Malformed(str) ==
    /\ str # <<>>
    /\ \E i \in 1..Len(str) : str[i] \notin {"0", "1", "2", "3", "4", "5", "6", "7", "8", "9", "-"}

ParseError == "strconv.ParseFloat: invalid syntax"

\* C12 as stated: GetBestNode given a malformed lat or lon returns the parse
\* error, an empty node name and an empty stream name, whatever the registry
\* and the store hold.
C12_MalformedIsParseError ==
    h.pc = "done" /\ h.op = "GetBestNode" /\ (Malformed(h.args[3]) \/ Malformed(h.args[4])) =>
        h.rets = {[NoRet EXCEPT !.err = ParseError]}

\* C13 as stated: a GetBestNode that returned the parse error of lat or lon
\* has not queried the store.
C13_ValidationBeforeQuery ==
    \A c \in Callers :
        GBNDone(c) /\ call[c].ret.err = ParseError => ~call[c].queried

\* the refresh of the call in h cannot complete: the store is nil, the query,
\* a scan or the iteration fails, or a row does not decode
RefreshFails ==
    \/ h.fault \in {"nil", "query", "rows"}
    \/ h.fault = "scan" /\ h.rows # <<>>
    \/ \E i \in 1..Len(h.rows) : ~h.rows[i].json

\* C14: when the store is nil, the query, a scan or the iteration fails, or any
\* row does not decode, GetBestNode and MistUtilLoadSource return only the
\* error "error refreshing nodes" wrapping the failure, with no node, stream
\* name or address, whatever the other rows hold.
C14_RefreshAborts ==
    h.pc = "done" /\ RefreshFails =>
        /\ h.rets # {}
        /\ \A ret \in h.rets :
              /\ ret.err = "error refreshing nodes" /\ ret.cause # ""
              /\ ret.node = "" /\ ret.stream = <<>> /\ ret.addr = <<>>

\* C14 witness: the first row is a fresh row of a registry node, the second
\* does not decode, and the call returned.
C14_Witness ==
    /\ h.pc = "done" /\ h.fault = ""
    /\ Len(h.rows) = 2
    /\ h.rows[1].json /\ h.rows[1].n \in DOMAIN h.nodes
    /\ 0 - h.rows[1].nm.t < metricTimeout
    /\ ~h.rows[2].json
    /\ \E ret \in h.rets : ret.cause = "failed to unmarshal node update event"

\* C15 as stated: a call whose context is canceled returns an error and no
\* node or address.
C15_CanceledFails ==
    h.pc = "done" /\ h.ctx = "canceled" =>
        \A ret \in h.rets : ret.err # "" /\ ret.node = "" /\ ret.addr = <<>>

C16_WitnessSelf ==
    /\ h.pc = "done" /\ h.op = "GetBestNode"
    /\ h.args[1] = <<>> /\ h.nodes = EmptyMap
    /\ \E ret \in h.rets : ret.err = "" /\ ret.node = NodeName
                           /\ ret.stream = <<"video", "+", "x">>

\* ---- SelectNode (SpecSelect)
\* C17: SelectNode returns the error "no nodes to select from" and the zero
\* Node on the empty list, and a node of the list and no error on every other
\* list; it never returns "selectTopNodes returned no nodes".
C17_ErrorIffEmpty ==
    h.pc = "done" =>
        /\ h.nodes = <<>> => h.err = "no nodes to select from" /\ h.node = ZeroNode
        /\ h.nodes # <<>> => h.err = "" /\ h.node.Name \in Names(h.nodes)
        /\ h.err # "selectTopNodes returned no nodes"

\* C17 witness: SelectNode returned from the empty list.
C17_Witness ==
    h.pc = "done" /\ h.nodes = <<>> /\ h.err = "no nodes to select from"

\* C17 witness, second case: SelectNode returned a node of a list no node of
\* which is near, serves the stream or has a low load.
C17_WitnessWorst ==
    /\ h.pc = "done" /\ h.err = "" /\ Len(h.nodes) = 1
    /\ h.topNodes[1].Score = 0

\* C18: on a non-empty candidate list selectTopNodes returns 1 to 3 nodes,
\* each a candidate (same Node, Streams and NodeMetrics) and no two the
\* same; SelectNode returns the Node of one of them, and each of them is what
\* SelectNode can return with that list.
C18_PickFromTopNodes ==
    h.pc = "done" /\ h.nodes # <<>> =>
        /\ Len(h.topNodes) >= 1 /\ Len(h.topNodes) <= 3
        /\ \A j \in 1..Len(h.topNodes) :
              \E i \in 1..Len(h.nodes) :
                 /\ h.nodes[i].Node = h.topNodes[j].Node
                 /\ h.nodes[i].Streams = h.topNodes[j].Streams
                 /\ h.nodes[i].NodeMetrics = h.topNodes[j].NodeMetrics
        /\ \A j, k \in 1..Len(h.topNodes) :
              j # k => h.topNodes[j].Node.Name # h.topNodes[k].Node.Name
        /\ \E j \in 1..Len(h.topNodes) : h.node = h.topNodes[j].Node
        /\ \A j \in 1..Len(h.topNodes) :
              \E out \in SelectNode(h.nodes, <<"x">>, 0, 0) :
                 out.topNodes = h.topNodes /\ out.node = h.topNodes[j].Node /\ out.err = ""

\* C18 witness: of four candidates three were returned and the third was
\* chosen.
C18_Witness ==
    /\ h.pc = "done" /\ Len(h.nodes) = 4 /\ Len(h.topNodes) = 3
    /\ h.node = h.topNodes[3].Node

\* ---- the event codec (SpecCodec)
\* no element of list holds the token "|" or the token "~"
NoSeparators(list) ==
    \A i \in 1..Len(list) : \A j \in 1..Len(list[i]) : list[i][j] \notin {"|", "~"}

\* C19 as stated: for lists a and b whose elements hold neither "|" nor "~",
\* after SetStreams(a, b) GetStreams returns a and GetIngestStreams returns b.
C19_RoundTrip ==
    h.pc = "done" /\ NoSeparators(h.a) /\ NoSeparators(h.b) =>
        h.streams = h.a /\ h.ingest = h.b

\* list is the one-element list holding the empty string
OnlyEmptyString(list) == list = << <<>> >>

\* C19, amended: for lists a and b whose elements hold neither "|" nor "~",
\* after SetStreams(a, b) GetStreams returns a and GetIngestStreams returns b,
\* except that a list holding exactly one empty string is returned as the
\* empty list.
C19_RoundTripButLoneEmpty ==
    h.pc = "done" /\ NoSeparators(h.a) /\ NoSeparators(h.b) =>
        /\ h.streams = IF OnlyEmptyString(h.a) THEN <<>> ELSE h.a
        /\ h.ingest = IF OnlyEmptyString(h.b) THEN <<>> ELSE h.b

\* C19 witness: an empty list and a list of two stream IDs, one of them the
\* empty string, came back as they went in.
C19_Witness ==
    /\ h.pc = "done"
    /\ h.a = <<>> /\ Len(h.b) = 2 /\ h.b[1] = <<>> /\ h.b[2] = <<"v", "+", "x">>
    /\ h.streams = h.a /\ h.ingest = h.b

\* ---- GetLoadScore (SpecLoad)
\* C20: GetLoadScore is 0 when the CPU, RAM or bandwidth percentage is above
\* 85, otherwise 1 when one of them is above 50, otherwise 2, whatever LoadAvg
\* is; it is 0 with 86 on one axis and 2 with all three at most 50.
C20_LoadScore ==
    h.pc = "done" =>
        LET m == h.node.NodeMetrics
            usage == {m.c, m.r, m.b}
        IN  /\ (\E u \in usage : u > 85) => h.score = 0
            /\ (\A u \in usage : u <= 85) /\ (\E u \in usage : u > 50) => h.score = 1
            /\ (\A u \in usage : u <= 50) => h.score = 2
            /\ (\E u \in usage : u = 86) => h.score = 0

\* C20 witness: one axis at exactly 85, the others at most 50, a high load
\* average, and the score is 1.
C20_Witness ==
    /\ h.pc = "done"
    /\ h.node.NodeMetrics.r = 85 /\ h.node.NodeMetrics.c = 50 /\ h.node.NodeMetrics.b = 0
    /\ h.node.NodeMetrics.l = 99
    /\ h.score = 1

\* ---- RefreshNodes (SpecRefresh)
Refreshed == h.pc \in {"refreshed", "done"} /\ h.res.err = ""

\* the rows of node n that decode and are not stale when they are read
FreshRowsOf(n) ==
    {i \in 1..Len(h.rows) :
        /\ h.rows[i].json /\ h.rows[i].n = n
        /\ h.clocks[i] - h.rows[i].nm.t < metricTimeout}

ElementsOf(seq) == {seq[i] : i \in 1..Len(seq)}

\* C21 as stated: when several rows of a node are not stale and one of them
\* has the latest timestamp, RefreshNodes reports that row's metrics and
\* ingest streams for the node, whatever the order of the rows.
C21_LatestRowWins ==
    Refreshed =>
        \A n \in NodeNames :
           \A i \in FreshRowsOf(n) :
              /\ Cardinality(FreshRowsOf(n)) >= 2
              /\ \A j \in FreshRowsOf(n) \ {i} : h.rows[j].nm.t < h.rows[i].nm.t
              => /\ h.res.s.NodeMetrics[n] = h.rows[i].nm
                 /\ DOMAIN h.res.s.IngestStreams[n] = ElementsOf(GetIngestStreams(h.rows[i].s))

\* every row decodes and no two rows are of one node
OneRowPerNode ==
    /\ \A i \in 1..Len(h.rows) : h.rows[i].json
    /\ \A i, j \in 1..Len(h.rows) : i # j => h.rows[i].n # h.rows[j].n

\* C22: when the store holds at most one row per node, RefreshNodes returns
\* the same three maps in whatever order the rows are read, each row read at
\* the same clock reading in every order.
C22_RowsCommute ==
    h.pc \in {"refreshed", "done"} /\ OneRowPerNode => h.orders = {h.res}

\* C22 witness: two rows of different nodes, read at different times and both
\* reported.
C22_Witness ==
    /\ h.pc = "refreshed" /\ OneRowPerNode
    /\ Len(h.rows) = 2 /\ h.clocks[1] # h.clocks[2]
    /\ h.rows[1].s # h.rows[2].s
    /\ DOMAIN h.res.s.NodeMetrics = {h.rows[1].n, h.rows[2].n}

\* C24: the three maps RefreshNodes returns have the same keys: the names of
\* the nodes with a row whose metrics timestamp is not stale when the row is
\* read; a node with stale rows only is in none of them.
C24_SameKeys ==
    Refreshed =>
        LET fresh == {n \in NodeNames : FreshRowsOf(n) # {}} IN
        /\ DOMAIN h.res.s.NodeMetrics = fresh
        /\ DOMAIN h.res.s.Streams = fresh
        /\ DOMAIN h.res.s.IngestStreams = fresh

\* C24 witness: a stale row of one node and a fresh row, without ingest
\* streams, of another.
C24_Witness ==
    /\ h.pc = "refreshed" /\ h.res.err = "" /\ Len(h.rows) = 2
    /\ h.rows[1].json /\ h.rows[2].json
    /\ FreshRowsOf(h.rows[1].n) = {} /\ FreshRowsOf(h.rows[2].n) = {2}
    /\ h.rows[1].s # SetStreams(<<>>, <<>>)
    /\ GetIngestStreams(h.rows[2].s) = <<>>
    /\ DOMAIN h.res.s.IngestStreams = {h.rows[2].n}

\* the part of stream after its "+" when it has exactly one, else all of it
Stripped(stream) ==
    LET plus == {i \in 1..Len(stream) : stream[i] = "+"} IN
    IF Cardinality(plus) = 1
    THEN SubSeq(stream, (CHOOSE i \in plus : TRUE) + 1, Len(stream))
    ELSE stream

\* the streams, playback and ingest, listed by row i
PublishedStreams(i) ==
    ElementsOf(GetStreams(h.rows[i].s)) \cup ElementsOf(GetIngestStreams(h.rows[i].s))

RequestIDs ==
    {<<"x">>, <<"y">>, <<"v", "+", "x">>, <<"w", "+", "x">>, <<"v", "+", "w", "+", "x">>}

\* the row of node n, when it has one
RowOf(n) == CHOOSE i \in 1..Len(h.rows) : h.rows[i].n = n

\* C23: with one row per node, a scored node has a requested playback ID
\* exactly when its row lists a stream whose stripped ID is the requested one
\* and the entry made when the row was read is not stale at scoring time.
C23_BarePlaybackID ==
    h.pc = "done" /\ OneRowPerNode =>
        \A list \in h.scored : \A k \in 1..Len(list) : \A id \in RequestIDs :
            LET i == RowOf(list[k].Node.Name) IN
            HasStream(list[k], id) <=>
                /\ h.clock - h.clocks[i] < metricTimeout
                /\ \E st \in PublishedStreams(i) : Stripped(st) = id

\* C23 witness: a node that published "v+x" is scored; it has x and not "v+x".
C23_Witness ==
    /\ h.pc = "done" /\ OneRowPerNode
    /\ \E list \in h.scored : \E k \in 1..Len(list) :
          /\ PublishedStreams(RowOf(list[k].Node.Name)) = {<<"v", "+", "x">>}
          /\ HasStream(list[k], <<"x">>)
          /\ ~HasStream(list[k], <<"v", "+", "x">>)

\* a node that published "x", without prefix, is scored and has x
C23_WitnessBare ==
    /\ h.pc = "done" /\ OneRowPerNode
    /\ \E list \in h.scored : \E k \in 1..Len(list) :
          /\ PublishedStreams(RowOf(list[k].Node.Name)) = {<<"x">>}
          /\ HasStream(list[k], <<"x">>)

\* a node that published "v+x" is scored after the entry became stale
C23_WitnessStale ==
    /\ h.pc = "done" /\ OneRowPerNode
    /\ \E list \in h.scored : \E k \in 1..Len(list) :
          /\ PublishedStreams(RowOf(list[k].Node.Name)) = {<<"v", "+", "x">>}
          /\ ~HasStream(list[k], <<"x">>)

\* the last of the rows of n that are not stale when read
LastFreshRow(n) == CHOOSE i \in FreshRowsOf(n) : \A j \in FreshRowsOf(n) : j <= i

\* the entries of the first tier for a request of id from latitude and longitude 0
Tier1Of(list, id) == localHasStreamNotOverloaded(geoScores(list, 0, 0), id)

\* C26: the ingest streams of the row RefreshNodes keeps for a node are in
\* the node's ingest snapshot under their full string and in its playback
\* snapshot under the stripped ID; while they are not stale the scored node
\* has the stripped ID and, when near and not loaded, is in the first tier.
C26_IngestIsPlayback ==
    Refreshed =>
        \A n \in NodeNames : FreshRowsOf(n) # {} =>
            LET i == LastFreshRow(n)
                ingest == ElementsOf(GetIngestStreams(h.rows[i].s))
            IN  /\ DOMAIN h.res.s.IngestStreams[n] = ingest
                /\ \A st \in ingest : Stripped(st) \in DOMAIN h.res.s.Streams[n]
                /\ h.pc = "done" /\ h.clock - h.clocks[i] < metricTimeout =>
                      \A list \in h.scored : \A k \in 1..Len(list) : \A st \in ingest :
                          list[k].Node.Name = n =>
                             /\ HasStream(list[k], Stripped(st))
                             /\ GetLoadScore(list[k]) = 2
                                /\ geoScores(list, 0, 0)[k].GeoScore = 2
                                => \E m \in 1..Len(Tier1Of(list, Stripped(st))) :
                                      Tier1Of(list, Stripped(st))[m].Node = list[k].Node

\* C26 witness: a node whose row lists "v+x" as an ingest stream only is
\* scored, has x and is in the first tier for x.
C26_Witness ==
    /\ h.pc = "done" /\ Len(h.rows) = 1 /\ h.rows[1].json
    /\ h.rows[1].s = SetStreams(<<>>, << <<"v", "+", "x">> >>)
    /\ FreshRowsOf(h.rows[1].n) = {1}
    /\ DOMAIN h.res.s.IngestStreams[h.rows[1].n] = {<<"v", "+", "x">>}
    /\ DOMAIN h.res.s.Streams[h.rows[1].n] = {<<"x">>}
    /\ \E list \in h.scored :
          /\ Len(list) = 1 /\ HasStream(list[1], <<"x">>)
          /\ Len(Tier1Of(list, <<"x">>)) = 1

\* ---- score components (SpecSelect)
ComponentsInRange(node) ==
    /\ GetLoadScore(node) \in {0, 1, 2}
    /\ node.StreamScore \in {0, 2}
    /\ node.GeoScore \in {0, 1, 2}

\* C25: the candidates SelectNode is given, the candidates after geoScores
\* and the nodes selectTopNodes returns all have GetLoadScore() in {0,1,2},
\* StreamScore in {0,2} and GeoScore in {0,1,2}.
C25_ScoreRanges ==
    /\ \A i \in 1..Len(h.nodes) :
          /\ ComponentsInRange(h.nodes[i])
          /\ ComponentsInRange(geoScores(h.nodes, 0, 0)[i])
    /\ \A i \in 1..Len(h.topNodes) : ComponentsInRange(h.topNodes[i])

\* C25 witness: a returned list in which every value of every component occurs.
C25_Witness ==
    /\ h.pc = "done"
    /\ \A v \in {0, 1, 2} : \E i \in 1..Len(h.topNodes) : GetLoadScore(h.topNodes[i]) = v
    /\ \A v \in {0, 1, 2} : \E i \in 1..Len(h.topNodes) : h.topNodes[i].GeoScore = v
    /\ \A v \in {0, 2} : \E i \in 1..Len(h.topNodes) : h.topNodes[i].StreamScore = v

\* C27: every node of the list selectTopNodes returns has StreamScore 2 when
\* it has the requested stream and StreamScore 0 when it has not.
C27_StreamScore ==
    h.pc = "done" =>
        \A i \in 1..Len(h.topNodes) :
            /\ h.topNodes[i].StreamScore = 2 <=> HasStream(h.topNodes[i], <<"x">>)
            /\ h.topNodes[i].StreamScore = 0 <=> ~HasStream(h.topNodes[i], <<"x">>)

\* C27 witness: the third tier returns a node with the stream and one without.
C27_Witness ==
    /\ h.pc = "done" /\ SelTier1 = {} /\ SelTier2 = {}
    /\ \E i, j \in 1..Len(h.topNodes) :
          /\ HasStream(h.topNodes[i], <<"x">>) /\ h.topNodes[i].StreamScore = 2
          /\ ~HasStream(h.topNodes[j], <<"x">>) /\ h.topNodes[j].StreamScore = 0

\* the first tier returns nodes with the stream
C27_WitnessTier1 ==
    /\ h.pc = "done" /\ SelTier1 # {} /\ Len(h.topNodes) > 1
    /\ \A i \in 1..Len(h.topNodes) : h.topNodes[i].StreamScore = 2

\* the second tier returns nodes without the stream, next to a far node with it
C27_WitnessTier2 ==
    /\ h.pc = "done" /\ SelTier1 = {} /\ SelTier2 # {}
    /\ \E i \in 1..Len(h.nodes) : HasStream(h.nodes[i], <<"x">>)
    /\ \A i \in 1..Len(h.topNodes) : h.topNodes[i].StreamScore = 0

\* ---- the event-driven balancer (SpecEvents)
BalKeysInRegistry(b) ==
    /\ DOMAIN b.Streams \subseteq DOMAIN b.Nodes
    /\ DOMAIN b.IngestStreams \subseteq DOMAIN b.Nodes
    /\ DOMAIN b.NodeMetrics \subseteq DOMAIN b.Nodes

\* C28: in every state of the event-driven balancer every key of Streams,
\* IngestStreams and NodeMetrics is a node of Nodes; an UpdateNodes or
\* UpdateStreams for a node outside the registry changes nothing, and after
\* an UpdateMembers no node outside the new registry has data left.
C28_DataOnlyForMembers ==
    /\ BalKeysInRegistry(h.b)
    /\ [][/\ BalKeysInRegistry(h'.b)
          /\ h'.op \in {"UpdateNodes", "UpdateStreams"} /\ h'.id \notin DOMAIN h.b.Nodes
             => h'.b = h.b
          /\ h'.op = "UpdateMembers"
             => \A n \in h'.purged :
                   /\ n \notin DOMAIN h'.b.Nodes
                   /\ n \notin DOMAIN h'.b.Streams \cup DOMAIN h'.b.IngestStreams
                                  \cup DOMAIN h'.b.NodeMetrics]_vars

\* C28 witness: an UpdateMembers has just deleted the streams and metrics of
\* a node while another node keeps its own.
C28_Witness ==
    /\ h.op = "UpdateMembers" /\ h.purged # {}
    /\ DOMAIN h.b.Nodes # {}
    /\ DOMAIN h.b.Streams = DOMAIN h.b.Nodes
    /\ DOMAIN h.b.IngestStreams = DOMAIN h.b.Nodes
    /\ DOMAIN h.b.NodeMetrics = DOMAIN h.b.Nodes

\* an update for a node outside the registry has just been dropped while a
\* registry node has data
C28_WitnessDropped ==
    /\ h.op \in {"UpdateNodes", "UpdateStreams"} /\ h.id \notin DOMAIN h.b.Nodes
    /\ DOMAIN h.b.NodeMetrics # {} /\ DOMAIN h.b.Streams # {}

\* ---- GetBestNode against UpdateMembers (Spec)
\* C29: while a call holds the read lock the registry is the version it
\* found when it took the lock; every entry createScoredNodes appends is a
\* node of that version with the metrics of the call's own stats snapshot,
\* not stale when appended; and a node GetBestNode selects from a non-empty
\* list is such an entry.
C29_SnapshotRead ==
    [][\A c \in Callers :
          /\ call'[c].pc = "range" => Nodes' = call'[c].ver /\ c \in nodesLock'.readers
          /\ call[c].pc = "range" /\ call[c].op = "GetBestNode" /\ call'[c].pc = "range"
             => \A i \in (Len(call[c].nodesList) + 1)..Len(call'[c].nodesList) :
                   LET entry == call'[c].nodesList[i] IN
                   /\ entry.Node.Name \in DOMAIN call[c].ver
                   /\ entry.Node = call[c].ver[entry.Node.Name]
                   /\ entry.Node.Name \in DOMAIN call[c].s.NodeMetrics
                   /\ entry.NodeMetrics = call[c].s.NodeMetrics[entry.Node.Name]
                   /\ now - entry.NodeMetrics.t < metricTimeout
          /\ /\ call[c].pc = "range" /\ call[c].op = "GetBestNode" /\ call'[c].pc = "done"
             /\ call[c].nodesList # <<>>
             => /\ call'[c].ret.err = ""
                /\ \E i \in 1..Len(call[c].nodesList) :
                      call[c].nodesList[i].Node.Name = call'[c].ret.node
                /\ call'[c].ret.node \in DOMAIN call'[c].ver
                /\ call'[c].ver = call[c].ver]_vars

\* C29 witness: GetBestNode has selected a node of the registry version it
\* read, and an UpdateMembers has removed the node before the caller took the
\* result.
C29_Witness ==
    \E c \in Callers :
        /\ call[c].pc = "done" /\ call[c].op = "GetBestNode" /\ call[c].ret.err = ""
        /\ call[c].ret.node \in call[c].scored
        /\ call[c].ret.node \in DOMAIN call[c].ver
        /\ call[c].ret.node \notin DOMAIN Nodes

\* C30: a step of GetBestNode or MistUtilLoadSource (RefreshNodes included)
\* leaves Nodes, the UpdateMembers call and the writer side of nodesLock as
\* they are; Nodes changes only in the step that ends an UpdateMembers; a call
\* that has returned holds no read lock and no stats, and the stats of a
\* running call are those its own RefreshNodes returned.
C30_Frame ==
    [][/\ call' # call => Nodes' = Nodes /\ um' = um /\ nodesLock'.writer = nodesLock.writer
       /\ Nodes' # Nodes => um = "locked" /\ um' = "idle" /\ call' = call
       /\ \A c \in Callers :
             /\ call'[c].pc \in {"idle", "done"}
                => c \notin nodesLock'.readers /\ call'[c].s = NewStats
             /\ call[c].pc \in {"rlock", "range"} /\ call'[c].pc \in {"rlock", "range"}
                => call'[c].s = call[c].s
             /\ call'[c].pc \in {"rlock", "range"} => call'[c].queried]_vars

\* C30 witness: a MistUtilLoadSource has failed after its loop over a registry
\* of two nodes, which is still there, with the lock free.
C30_Witness ==
    \E c \in Callers :
        /\ call[c].pc = "done" /\ call[c].op = "MistUtilLoadSource"
        /\ call[c].ret.err # "" /\ call[c].ret.cause = ""
        /\ DOMAIN Nodes = NodeNames /\ call[c].ver = Nodes
        /\ nodesLock = [writer |-> FALSE, readers |-> {}]
        /\ um = "idle"

\* a GetBestNode has succeeded on a registry of two nodes, which is still there
C30_WitnessSuccess ==
    \E c \in Callers :
        /\ call[c].pc = "done" /\ call[c].op = "GetBestNode"
        /\ call[c].ret.err = "" /\ call[c].ret.node \in call[c].scored
        /\ DOMAIN Nodes = NodeNames /\ call[c].ver = Nodes
        /\ nodesLock = [writer |-> FALSE, readers |-> {}]

====
